---- MODULE Spec2Model ----
(***************************************************************************)
(* A model of the generic REST CRUD backend: the BaseController             *)
(* (src/src/api/controllers/base.controller.js) bound to the Company model  *)
(* (src/src/api/models/company.model.js), the helpers it calls              *)
(* (src/src/helpers/services/model-helpers.js), the error normalizer, the   *)
(* request validator of the routes, and the process around them: the        *)
(* shutdown hooks of the server and the database connection.                *)
(*                                                                          *)
(* JavaScript strings that the code computes on (query-string values,       *)
(* field names, company names) are sequences of one-character strings, so   *)
(* that split, trim, join, case conversion and prefix tests are computed.   *)
(* Fixed message texts are atomic strings.  JavaScript objects are           *)
(* functions; a missing key is a key outside the DOMAIN.                     *)
(***************************************************************************)
EXTENDS Integers, Sequences, FiniteSets, TLC

VARIABLES
    env,        \* envVars.env, fixed when the process starts
    store,      \* the company collection: documents in insertion order
    clock,      \* the time source behind created_at / updated_at
    inflight,   \* the list request suspended between its count and its find
    last,       \* the request that completed last and what it produced
    proc,       \* the process: its HTTP server, shutdown timers and exit code
    db          \* the mongoose connection and the connectDB calls and timers

vars == <<env, store, clock, inflight, last, proc, db>>

----------------------------------------------------------------------------
(* Bounds of the model.                                                     *)

MaxDocs == 2
MaxClock == 2

----------------------------------------------------------------------------
(* JavaScript string primitives.                                            *)

LowerChars == <<"a","b","c","d","e","f","g","h","i","j","k","l","m",
                "n","o","p","q","r","s","t","u","v","w","x","y","z">>
UpperChars == <<"A","B","C","D","E","F","G","H","I","J","K","L","M",
                "N","O","P","Q","R","S","T","U","V","W","X","Y","Z">>
DigitChars == <<"0","1","2","3","4","5","6","7","8","9">>

Range(s) == {s[i] : i \in DOMAIN s}

IndexIn(c, tbl) == IF \E i \in DOMAIN tbl : tbl[i] = c
                   THEN CHOOSE i \in DOMAIN tbl : tbl[i] = c
                   ELSE 0

\* the upper-case and the lower-case form of each letter
UpperOf == [c \in Range(LowerChars) |-> UpperChars[IndexIn(c, LowerChars)]]
LowerOf == [c \in Range(UpperChars) |-> LowerChars[IndexIn(c, UpperChars)]]

\* String.prototype.toUpperCase / toLowerCase, one character
UpperChar(c) == IF c \in DOMAIN UpperOf THEN UpperOf[c] ELSE c
LowerChar(c) == IF c \in DOMAIN LowerOf THEN LowerOf[c] ELSE c

toUpperCase(s) == [i \in DOMAIN s |-> UpperChar(s[i])]
toLowerCase(s) == [i \in DOMAIN s |-> LowerChar(s[i])]

\* \w of a JavaScript regular expression
WordChars == Range(LowerChars) \cup Range(UpperChars) \cup Range(DigitChars) \cup {"_"}

IsWordChar(c) == c \in WordChars

\* \s of a JavaScript regular expression (the model's only blank is the space)
IsSpace(c) == c = " "

\* s.slice(from) with a 0-based start
sliceFrom(s, from) == IF from >= Len(s) THEN <<>> ELSE SubSeq(s, from + 1, Len(s))

RECURSIVE TrimLeft(_)
TrimLeft(s) == IF s # <<>> /\ IsSpace(Head(s)) THEN TrimLeft(Tail(s)) ELSE s

RECURSIVE TrimRight(_)
TrimRight(s) == IF s # <<>> /\ IsSpace(s[Len(s)])
                THEN TrimRight(SubSeq(s, 1, Len(s) - 1))
                ELSE s

\* String.prototype.trim
trim(s) == TrimRight(TrimLeft(s))

RECURSIVE SplitFrom(_, _, _, _)
SplitFrom(s, sep, i, cur) ==
    IF i > Len(s) THEN <<cur>>
    ELSE IF s[i] = sep THEN <<cur>> \o SplitFrom(s, sep, i + 1, <<>>)
    ELSE SplitFrom(s, sep, i + 1, Append(cur, s[i]))

\* String.prototype.split(sep) for a one-character separator
split(s, sep) == SplitFrom(s, sep, 1, <<>>)

RECURSIVE join(_, _)
\* Array.prototype.join(sep)
join(parts, sep) ==
    IF parts = <<>> THEN <<>>
    ELSE IF Len(parts) = 1 THEN parts[1]
    ELSE parts[1] \o sep \o join(Tail(parts), sep)

\* String.prototype.startsWith for a one-character prefix
startsWith(s, c) == s # <<>> /\ s[1] = c

\* Array.prototype.indexOf, 1-based, 0 when absent
RECURSIVE IndexOfFrom(_, _, _)
IndexOfFrom(arr, x, i) ==
    IF i > Len(arr) THEN 0
    ELSE IF arr[i] = x THEN i
    ELSE IndexOfFrom(arr, x, i + 1)

indexOf(arr, x) == IndexOfFrom(arr, x, 1)

\* Array.prototype.includes
includes(arr, x) == indexOf(arr, x) > 0

\* the words of a string: split on runs of blanks, no empty word
Words(s) == SelectSeq(split(s, " "), LAMBDA w : w # <<>>)

----------------------------------------------------------------------------
(* Status codes and message tables (utils/constants/constants.js).          *)

OK == 200
CREATED == 201
BAD_REQUEST == 400
NOT_FOUND == 404
TOO_MANY_REQUESTS == 429
INTERNAL_SERVER_ERROR == 500

ErrorMessages == [ INTERNAL_SERVER_ERROR |-> "Internal Server Error",
                   VALIDATION            |-> "Validation Error",
                   NOT_FOUND             |-> "Resource not found",
                   RATE_LIMIT            |-> "Too many requests" ]

ErrorTypes == [ VALIDATION |-> "VALIDATION_ERROR" ]

SuccessMessages == [ CREATED   |-> "Resource created successfully",
                     UPDATED   |-> "Resource updated successfully",
                     DELETED   |-> "Resource deleted successfully",
                     RETRIEVED |-> "Resource retrieved successfully" ]

----------------------------------------------------------------------------
(* The Company schema (api/models/company.model.js).                        *)

F_id         == <<"_","i","d">>
F_name       == <<"n","a","m","e">>
F_slug       == <<"s","l","u","g">>
F_status     == <<"s","t","a","t","u","s">>
F_v          == <<"_","_","v">>
F_created_at == <<"c","r","e","a","t","e","d","_","a","t">>
F_updated_at == <<"u","p","d","a","t","e","d","_","a","t">>

\* the virtuals: mongoose's own "id" and the two the schema declares
V_id            == <<"i","d">>
V_statusDisplay == <<"s","t","a","t","u","s","D","i","s","p","l","a","y">>
V_slugDisplay   == <<"s","l","u","g","D","i","s","p","l","a","y">>

\* the paths a stored document has
SchemaPaths == {F_id, F_name, F_slug, F_status, F_v, F_created_at, F_updated_at}

protectedFields == <<F_v, F_created_at, F_updated_at>>
searchableFields == <<F_name, F_slug>>

\* CompanyStatus (utils/constants/enums.js): the enum of the status path
StatusActive   == <<"a","c","t","i","v","e">>
StatusInactive == <<"i","n","a","c","t","i","v","e">>
CompanyStatus  == {StatusActive, StatusInactive}

businessSuffixes == { <<"L","L","C">>, <<"I","n","c">>, <<"L","t","d">>,
                      <<"C","o">>, <<"C","o","r","p">> }

\* the identifiers of the model: ObjectId values
Ids == 1..(MaxDocs + 1)

\* a request parameter that does not cast to an ObjectId
MalformedId == 0

\* s.replace(/\s+/g, " ") and s.replace(/-+/g, "-"): runs of c become one rep
RECURSIVE CollapseRuns(_, _, _)
CollapseRuns(s, c, rep) ==
    IF s = <<>> THEN <<>>
    ELSE IF Head(s) = c
         THEN IF Len(s) > 1 /\ s[2] = c
              THEN CollapseRuns(Tail(s), c, rep)
              ELSE <<rep>> \o CollapseRuns(Tail(s), c, rep)
         ELSE <<Head(s)>> \o CollapseRuns(Tail(s), c, rep)

\* word.replace(/\./g, "")
RECURSIVE RemoveDots(_)
RemoveDots(s) ==
    IF s = <<>> THEN <<>>
    ELSE (IF Head(s) = "." THEN <<>> ELSE <<Head(s)>>) \o RemoveDots(Tail(s))

normalizeWord(words, index) ==
    LET word == words[index]
        isSuffix == \/ word \in businessSuffixes
                    \/ (index = Len(words) /\ RemoveDots(word) \in businessSuffixes)
    IN  IF word = <<>> THEN <<>>
        ELSE IF isSuffix THEN toUpperCase(word)
        ELSE <<UpperChar(word[1])>> \o toLowerCase(sliceFrom(word, 1))

normalizeCompanyName(name) ==
    LET words == split(CollapseRuns(trim(name), " ", " "), " ")
    IN  join([i \in DOMAIN words |-> normalizeWord(words, i)], <<" ">>)

\* .replace(/&/g, "and")
RECURSIVE ReplaceAmp(_)
ReplaceAmp(s) ==
    IF s = <<>> THEN <<>>
    ELSE (IF Head(s) = "&" THEN <<"a","n","d">> ELSE <<Head(s)>>) \o ReplaceAmp(Tail(s))

\* .replace(/[^\w\s-]/g, "")
RECURSIVE KeepSlugChars(_)
KeepSlugChars(s) ==
    IF s = <<>> THEN <<>>
    ELSE (IF IsWordChar(Head(s)) \/ IsSpace(Head(s)) \/ Head(s) = "-"
          THEN <<Head(s)>> ELSE <<>>) \o KeepSlugChars(Tail(s))

generateSlug(name) ==
    CollapseRuns(
        CollapseRuns(trim(KeepSlugChars(ReplaceAmp(toLowerCase(name)))), " ", "-"),
        "-", "-")

\* a variant of omitter that omits nothing
omitter_keepAll(keys, obj) == obj

\* omitter(keys, obj): obj without the keys listed
omitter(keys, obj) ==
    [k \in {x \in DOMAIN obj : ~includes(keys, x)} |-> obj[k]]

\* the virtual getters read this.status, this.slug and this.name: on a document
\* loaded without them the getter dereferences undefined and throws a TypeError
VirtualsThrow(doc) ==
    \/ F_status \notin DOMAIN doc
    \/ /\ (F_slug \notin DOMAIN doc \/ doc[F_slug] = <<>>)
       /\ F_name \notin DOMAIN doc

statusDisplay(doc) ==
    IF doc[F_status] = <<>> THEN <<>>
    ELSE <<UpperChar(doc[F_status][1])>> \o toLowerCase(sliceFrom(doc[F_status], 1))

slugDisplay(doc) ==
    IF F_slug \in DOMAIN doc /\ doc[F_slug] # <<>>
    THEN doc[F_slug]
    ELSE generateSlug(doc[F_name])

\* doc.toObject() / doc.toJSON() under the schema options: virtuals added,
\* the version key dropped, and the transform that deletes _id
toObject(doc) ==
    LET kept == [k \in (DOMAIN doc) \ {F_id, F_v} |-> doc[k]]
    IN  kept @@ (V_id :> doc[F_id])
             @@ (V_statusDisplay :> statusDisplay(doc))
             @@ (V_slugDisplay :> slugDisplay(doc))

\* a variant of transform that serializes the document without omitting the
\* protected fields, as the delete handler does
transform_raw(doc) == toObject(doc)

\* the instance method transform()
transform(doc) == omitter(protectedFields, toObject(doc))

----------------------------------------------------------------------------
(* Failures.  An error object is a function: "ctor" is its class            *)
(* (err.constructor.name), "name" its name property, "message" its text,    *)
(* "stack" its stack trace; "status", "errors", "code" and "keyPattern"     *)
(* are present only on the errors that carry them.                          *)

StackOf(ctor) == <<"stack of", ctor>>

\* new APIError({ message, status, errors = null, stack = null }): a null
\* errors list is a missing "errors" key, a missing stack is the error's own
APIError(message, status, errors, hasErrors, stack, hasStack) ==
    LET base == [ ctor    |-> "APIError",
                  name    |-> "APIError",
                  message |-> message,
                  status  |-> status,
                  stack   |-> IF hasStack THEN stack ELSE StackOf("APIError") ]
    IN  IF hasErrors THEN base @@ [errors |-> errors] ELSE base

\* the not-found failure the controller raises from orFail
NotFoundError ==
    APIError(ErrorMessages.NOT_FOUND, NOT_FOUND, <<>>, FALSE, <<>>, FALSE)

\* mongoose's ValidationError: errors maps each failed path to its reason,
\* kept as the ordered entries of that object
MongooseValidationError(entries) ==
    [ ctor    |-> "ValidationError",
      name    |-> "ValidationError",
      message |-> "company validation failed",
      errors  |-> entries,
      stack   |-> StackOf("ValidationError") ]

\* the driver's duplicate-key failure (E11000) for one unique index
DuplicateKeyError(keys) ==
    [ ctor       |-> "MongoServerError",
      name       |-> "MongoServerError",
      message    |-> "E11000 duplicate key error",
      code       |-> 11000,
      keyPattern |-> keys,
      stack      |-> StackOf("MongoServerError") ]

\* mongoose's CastError for a parameter that is not an ObjectId
CastError ==
    [ ctor    |-> "CastError",
      name    |-> "CastError",
      message |-> "Cast to ObjectId failed",
      stack   |-> StackOf("CastError") ]

\* a TypeError thrown by the JavaScript runtime
TypeError(message) ==
    [ ctor    |-> "TypeError",
      name    |-> "TypeError",
      message |-> message,
      stack   |-> StackOf("TypeError") ]

AlreadyInUse == <<" ","a","l","r","e","a","d","y"," ","i","n"," ","u","s","e",".">>

\* a variant of capitalize that leaves the first letter as it is
capitalize_asIs(word) == word

\* word.charAt(0).toUpperCase() + word.slice(1)
capitalize(word) ==
    IF word = <<>> THEN <<>> ELSE <<UpperChar(word[1])>> \o sliceFrom(word, 1)

\* key.toLowerCase().split("_").map(capitalize).join(" ")
titleCase(key) ==
    LET words == split(toLowerCase(key), "_")
    IN  join([i \in DOMAIN words |-> capitalize(words[i])], <<" ">>)

duplicateEntry(key) == [ field |-> key, messages |-> titleCase(key) \o AlreadyInUse ]

\* a variant of checkDuplication that returns every failure as it came
checkDuplication_asIs(error) == error

checkDuplication(error) ==
    LET isDuplicateError ==
            /\ "code" \in DOMAIN error
            /\ error.code = 11000
            /\ error.name \in {"BulkWriteError", "MongoError", "MongoServerError"}
    IN  IF ~isDuplicateError THEN error
        ELSE LET keys == error.keyPattern
             IN  IF Len(keys) = 0 THEN error
                 ELSE APIError(ErrorMessages.VALIDATION, BAD_REQUEST,
                               [i \in DOMAIN keys |-> duplicateEntry(keys[i])],
                               TRUE, <<>>, FALSE)

----------------------------------------------------------------------------
(* The error normalizer (convertError, errorHandler).  A response is        *)
(* [status, body]: what res.status(..).json(..) writes.                     *)

\* a variant of Without that deletes nothing
Without_keep(obj, key) == obj

Without(obj, key) == [k \in (DOMAIN obj) \ {key} |-> obj[k]]

\* err.status || INTERNAL_SERVER_ERROR
StatusOrDefault(err) ==
    IF "status" \in DOMAIN err /\ err.status # 0 THEN err.status ELSE INTERNAL_SERVER_ERROR

\* a variant of MessageOrDefault that keeps an empty message
MessageOrDefault_asIs(err) == err.message

\* err.message || ErrorMessages.INTERNAL_SERVER_ERROR
MessageOrDefault(err) ==
    IF err.message # "" THEN err.message ELSE ErrorMessages.INTERNAL_SERVER_ERROR

\* a variant of errorHandler that adds the diagnostic fields in every
\* environment
errorHandler_diagnosed(err, req) ==
    [ status |-> StatusOrDefault(err),
      body   |-> [ success |-> FALSE,
                   code    |-> StatusOrDefault(err),
                   message |-> MessageOrDefault(err),
                   stack   |-> err.stack,
                   type    |-> err.ctor,
                   path    |-> req.originalUrl,
                   method  |-> req.method ] ]

errorHandler(err, req) ==
    LET base == [ success |-> FALSE,
                  code    |-> StatusOrDefault(err),
                  message |-> MessageOrDefault(err) ]
        response == IF "errors" \in DOMAIN err THEN base @@ [errors |-> err.errors] ELSE base
        inDev == response @@ [ stack  |-> err.stack,
                               type   |-> err.ctor,
                               path   |-> req.originalUrl,
                               method |-> req.method ]
        obfuscated == Without([response EXCEPT !.message = ErrorMessages.INTERNAL_SERVER_ERROR],
                              "errors")
        inProd == Without(IF response.code >= 500 THEN obfuscated ELSE response, "stack")
        final == IF env = "development" THEN inDev
                 ELSE IF env = "production" THEN inProd
                 ELSE response
    IN  [ status |-> final.code, body |-> final ]

\* what Express answers when the error middleware itself throws
UnhandledResponse == [ status |-> INTERNAL_SERVER_ERROR, body |-> [ html |-> TRUE ] ]

\* e.message.replace(/[^\w\s]/gi, "")

stripPunctuation(s) == SelectSeq(s, LAMBDA c : IsWordChar(c) \/ IsSpace(c))


RECURSIVE flattenDetails(_)
\* Object.entries(err.details).flatMap(([location, details]) => details.map(..))
flattenDetails(groups) ==
    IF groups = <<>> THEN <<>>
    ELSE LET g == Head(groups)
         IN  [ i \in DOMAIN g.items |->
                 [ location |-> g.location,
                   message  |-> stripPunctuation(g.items[i].message),
                   field    |-> IF g.items[i].path # <<>> /\ g.items[i].path[1] # <<>>
                                THEN g.items[i].path[1] ELSE <<"u","n","k","n","o","w","n">> ] ]
             \o flattenDetails(Tail(groups))

\* a variant of convertError that tests for the request-validation failure
\* before the schema-validation failure
convertError_requestFirst(err, req) ==
    IF err.ctor = "ExpressValidationError"
    THEN errorHandler(
             APIError(ErrorTypes.VALIDATION,
                      IF "statusCode" \in DOMAIN err /\ err.statusCode # 0
                      THEN err.statusCode ELSE BAD_REQUEST,
                      IF "details" \in DOMAIN err THEN flattenDetails(err.details) ELSE <<>>,
                      TRUE, err.stack, env = "development"),
             req)
    ELSE IF err.name = "ValidationError" /\ "errors" \in DOMAIN err
    THEN errorHandler(
             APIError(ErrorTypes.VALIDATION, BAD_REQUEST,
                      [ i \in DOMAIN err.errors |->
                          [ location |-> "body",
                            message  |-> err.errors[i].message,
                            field    |-> err.errors[i].field,
                            type     |-> err.errors[i].kind ] ],
                      TRUE, err.stack, env = "development"),
             req)
    ELSE errorHandler(err, req)

convertError(err, req) ==
    IF err.name = "ValidationError"
    THEN IF "errors" \notin DOMAIN err
         THEN UnhandledResponse
         ELSE errorHandler(
                  APIError(ErrorTypes.VALIDATION, BAD_REQUEST,
                           [ i \in DOMAIN err.errors |->
                               [ location |-> "body",
                                 message  |-> err.errors[i].message,
                                 field    |-> err.errors[i].field,
                                 type     |-> err.errors[i].kind ] ],
                           TRUE, err.stack, env = "development"),
                  req)
    ELSE IF err.ctor = "ExpressValidationError"
    THEN errorHandler(
             APIError(ErrorTypes.VALIDATION,
                      IF "statusCode" \in DOMAIN err /\ err.statusCode # 0
                      THEN err.statusCode ELSE BAD_REQUEST,
                      IF "details" \in DOMAIN err THEN flattenDetails(err.details) ELSE <<>>,
                      TRUE, err.stack, env = "development"),
             req)
    ELSE IF err.ctor # "APIError"
    THEN errorHandler(
             APIError(MessageOrDefault(err), StatusOrDefault(err),
                      IF "errors" \in DOMAIN err THEN err.errors ELSE <<>>,
                      "errors" \in DOMAIN err, err.stack, TRUE),
             req)
    ELSE errorHandler(err, req)

\* new APIError(options) for an options object built with a spread: the
\* constructor destructures message, status, errors and stack, and no other
\* key of the options reaches the error
NewAPIError(options) ==
    APIError(options.message, options.status,
             IF "errors" \in DOMAIN options THEN options.errors ELSE <<>>,
             "errors" \in DOMAIN options,
             IF "stack" \in DOMAIN options THEN options.stack ELSE <<>>,
             "stack" \in DOMAIN options)

\* req.rateLimit?.limit, .current, .remaining: what the limiter left on the
\* request, undefined where there is none
RateLimitInfo(req) ==
    IF "rateLimit" \in DOMAIN req
    THEN [ limit     |-> req.rateLimit.limit,
           current   |-> req.rateLimit.current,
           remaining |-> req.rateLimit.remaining ]
    ELSE [ limit |-> "undefined", current |-> "undefined", remaining |-> "undefined" ]

rateLimitHandler(req) ==
    LET err == NewAPIError([ message |-> ErrorMessages.RATE_LIMIT,
                             status  |-> TOO_MANY_REQUESTS ]
                           @@ (IF env = "development" THEN RateLimitInfo(req) ELSE <<>>))
    IN  errorHandler(err, req)

notFoundHandler(req) ==
    errorHandler(
        NewAPIError([ message |-> ErrorMessages.NOT_FOUND, status |-> NOT_FOUND ]
                    @@ (IF env = "development"
                        THEN [ path |-> req.originalUrl, method |-> req.method ]
                        ELSE <<>>)),
        req)

\* the layers applyErrorMiddleware adds with app.use, in its order;  arity  is
\* the number of parameters the function declares, by which Express tells an
\* error handler (four) from a request handler
applyErrorMiddleware ==
    << [ handler |-> "convertError",     arity |-> 4 ],
       [ handler |-> "rateLimitHandler", arity |-> 3 ],
       [ handler |-> "notFoundHandler",  arity |-> 3 ],
       [ handler |-> "errorHandler",     arity |-> 3 ] >>

\* a request that no route answered and that carries no error: Express skips
\* the layers of arity four and calls the first of the others as
\* (req, res, next); rateLimitHandler and notFoundHandler answer without
\* calling next
unmatched(req) ==
    LET layers == SelectSeq(applyErrorMiddleware, LAMBDA l : l.arity # 4)
    IN  IF Head(layers).handler = "rateLimitHandler" THEN rateLimitHandler(req)
        ELSE IF Head(layers).handler = "notFoundHandler" THEN notFoundHandler(req)
        ELSE UnhandledResponse

----------------------------------------------------------------------------
(* The store: the operations of the mongoose model on the collection.       *)

StoredIds(s) == {s[i][F_id] : i \in DOMAIN s}

PositionOf(s, id) == CHOOSE i \in DOMAIN s : s[i][F_id] = id

\* the ObjectId mongoose generates for a document created without _id
FreshId(s) == CHOOSE id \in Ids \ StoredIds(s) : \A other \in Ids \ StoredIds(s) : id <= other

\* the schema collation (locale en, strength 2) compares without case
SameUnderCollation(a, b) == toLowerCase(a) = toLowerCase(b)

\* /^[a-z0-9-]+$/.test(slug)
SlugChars == Range(LowerChars) \cup Range(DigitChars) \cup {"-"}

SlugIsValid(slug) ==
    /\ slug # <<>>
    /\ \A i \in DOMAIN slug : slug[i] \in SlugChars

\* the validators of the paths present in  values  (a path that is absent is
\* checked only where  required  says so)
PathErrors(values, requireAll) ==
    (IF (F_name \in DOMAIN values /\ values[F_name] = <<>>)
        \/ (requireAll /\ F_name \notin DOMAIN values)
     THEN << [ field |-> F_name, message |-> "Company name is required",
                 kind |-> "required" ] >>
     ELSE <<>>)
    \o
    (IF F_status \in DOMAIN values /\ values[F_status] \notin CompanyStatus
     THEN << [ field |-> F_status, message |-> "Status must be one of the enum values",
                 kind |-> "enum" ] >>
     ELSE <<>>)
    \o
    (IF F_slug \in DOMAIN values /\ ~SlugIsValid(values[F_slug])
     THEN << [ field |-> F_slug,
                 message |-> "Slug must contain only lowercase letters, numbers, and hyphens",
                 kind |-> "user defined" ] >>
     ELSE <<>>)

\* new Model(body): the schema's paths of the body, name trimmed by its
\* setter, status defaulted
construct(body, s) ==
    (IF F_name \in DOMAIN body THEN (F_name :> trim(body[F_name])) ELSE <<>>)
    @@ (F_status :> IF F_status \in DOMAIN body THEN body[F_status] ELSE StatusActive)
    @@ (F_id :> IF F_id \in DOMAIN body THEN body[F_id] ELSE FreshId(s))

\* the unique indexes a document violates against the other documents
ViolatedIndexes(s, doc) ==
    { <<F_id>>   : i \in {j \in DOMAIN s : s[j][F_id] = doc[F_id]} }
    \cup
    { <<F_name>> : i \in {j \in DOMAIN s : SameUnderCollation(s[j][F_name], doc[F_name])} }
    \cup
    { <<F_slug>> : i \in {j \in DOMAIN s : SameUnderCollation(s[j][F_slug], doc[F_slug])} }

\* the pre("save") hook on a new, validated document: the name normalized, the
\* slug generated from it; then the version key and the timestamps of the insert
preSave(fresh, now) ==
    LET name == normalizeCompanyName(fresh[F_name])
    IN  (F_id :> fresh[F_id]) @@ (F_name :> name) @@ (F_slug :> generateSlug(name))
        @@ (F_status :> fresh[F_status]) @@ (F_v :> 0)
        @@ (F_created_at :> now) @@ (F_updated_at :> now)

\* doc.save() on a new document: validation, then the pre-save hook, then the
\* insert.  The set of possible results: [ok, store, doc] or [ok, err]; the
\* server names one violated index in its duplicate-key error
save(s, body, now) ==
    LET fresh == construct(body, s)
        failed == PathErrors(fresh, TRUE)
        doc == preSave(fresh, now)
    IN  IF failed # <<>>
        THEN { [ ok |-> FALSE, err |-> MongooseValidationError(failed) ] }
        ELSE IF ViolatedIndexes(s, doc) # {}
        THEN { [ ok |-> FALSE, err |-> DuplicateKeyError(keys) ] : keys \in ViolatedIndexes(s, doc) }
        ELSE { [ ok |-> TRUE, store |-> Append(s, doc), doc |-> doc ] }


\* the pre("findOneAndUpdate") hook: a truthy name is normalized and the slug
\* follows it
preFindOneAndUpdate(update) ==
    IF F_name \in DOMAIN update /\ update[F_name] # <<>>
    THEN LET normalizedName == normalizeCompanyName(update[F_name])
         IN  (F_name :> normalizedName) @@ (F_slug :> generateSlug(normalizedName)) @@ update
    ELSE update

\* the update cast to the schema: its paths only, name through its trim setter
castUpdate(update) ==
    [ k \in (DOMAIN update) \cap {F_name, F_slug, F_status} |->
        IF k = F_name THEN trim(update[k]) ELSE update[k] ]

\* the documents of the collection other than the one with this id
Others(s, id) == SelectSeq(s, LAMBDA d : d[F_id] # id)

\* Model.findByIdAndUpdate(id, body, { new: true, runValidators: true }): the
\* possible results, [ok, found, store, doc] or [ok, err]
findByIdAndUpdate(s, id, body, now) ==
    IF id = MalformedId THEN { [ ok |-> FALSE, err |-> CastError ] }
    ELSE
    LET update == castUpdate(preFindOneAndUpdate(body))
        failed == PathErrors(update, FALSE)
        i == PositionOf(s, id)
        doc == update @@ (F_updated_at :> now) @@ s[i]
        others == Others(s, id)
    IN  IF failed # <<>>
        THEN { [ ok |-> FALSE, err |-> MongooseValidationError(failed) ] }
        ELSE IF id \notin StoredIds(s)
        THEN { [ ok |-> TRUE, found |-> FALSE, store |-> s ] }
        ELSE IF ViolatedIndexes(others, doc) # {}
        THEN { [ ok |-> FALSE, err |-> DuplicateKeyError(keys) ] :
                   keys \in ViolatedIndexes(others, doc) }
        ELSE { [ ok |-> TRUE, found |-> TRUE, store |-> [s EXCEPT ![i] = doc], doc |-> doc ] }

\* Model.findById(id)
findById(s, id) ==
    IF id = MalformedId THEN [ ok |-> FALSE, err |-> CastError ]
    ELSE IF id \notin StoredIds(s) THEN [ ok |-> TRUE, found |-> FALSE ]
    ELSE [ ok |-> TRUE, found |-> TRUE, doc |-> s[PositionOf(s, id)] ]

\* Model.findByIdAndDelete(id)
findByIdAndDelete(s, id) ==
    IF id = MalformedId THEN [ ok |-> FALSE, err |-> CastError ]
    ELSE IF id \notin StoredIds(s) THEN [ ok |-> TRUE, found |-> FALSE, store |-> s ]
    ELSE [ ok |-> TRUE, found |-> TRUE, doc |-> s[PositionOf(s, id)],
           store |-> Others(s, id) ]

----------------------------------------------------------------------------
(* The controller (BaseController).  A handler ends either by writing a     *)
(* response, Json, or by handing a failure to next, Forward.                *)

Json(status, body) == [ kind |-> "json", status |-> status, body |-> body ]
Forward(err) == [ kind |-> "next", err |-> err ]

\* the response the client receives for a handler's outcome
Respond(out, req) ==
    IF out.kind = "json" THEN [ status |-> out.status, body |-> out.body ]
    ELSE convertError(out.err, req)

\* a variant of add that keeps the new document in the collection when the
\* insert is refused
add_keepsRefused(s, req, now) ==
    { IF r.ok
      THEN [ store |-> r.store,
             out   |-> Json(CREATED, [ data    |-> transform(r.doc),
                                       code    |-> OK,
                                       message |-> SuccessMessages.CREATED ]) ]
      ELSE [ store |-> Append(s, preSave(construct(req.body, s) @@ (F_name :> <<>>), now)),
             out |-> Forward(checkDuplication(r.err)) ]
      : r \in save(s, req.body, now) }

add(s, req, now) ==
    { IF r.ok
      THEN [ store |-> r.store,
             out   |-> Json(CREATED, [ data    |-> transform(r.doc),
                                       code    |-> OK,
                                       message |-> SuccessMessages.CREATED ]) ]
      ELSE [ store |-> s, out |-> Forward(checkDuplication(r.err)) ]
      : r \in save(s, req.body, now) }

get(s, req) ==
    LET r == findById(s, req.params.id)
    IN  IF ~r.ok THEN Forward(r.err)
        ELSE IF ~r.found THEN Forward(NotFoundError)
        ELSE Json(OK, [ data    |-> transform(r.doc),
                        code    |-> OK,
                        message |-> SuccessMessages.RETRIEVED ])

update(s, req, now) ==
    { IF ~r.ok
      THEN [ store |-> s, out |-> Forward(checkDuplication(r.err)) ]
      ELSE IF ~r.found
      THEN [ store |-> s, out |-> Forward(checkDuplication(NotFoundError)) ]
      ELSE [ store |-> r.store,
             out   |-> Json(OK, [ data    |-> transform(r.doc),
                                  code    |-> OK,
                                  message |-> SuccessMessages.UPDATED ]) ]
      : r \in findByIdAndUpdate(s, req.params.id, req.body, now) }

\* a variant of delete without orFail: a missing record is answered as deleted
delete_noOrFail(s, req) ==
    LET r == findByIdAndDelete(s, req.params.id)
    IN  IF ~r.ok THEN [ store |-> s, out |-> Forward(r.err) ]
        ELSE [ store |-> r.store,
               out   |-> Json(OK, [ data    |-> IF r.found THEN toObject(r.doc) ELSE <<>>,
                                    code    |-> OK,
                                    message |-> SuccessMessages.DELETED ]) ]

\* a variant of delete that answers with the public transform of the record
delete_transformed(s, req) ==
    LET r == findByIdAndDelete(s, req.params.id)
    IN  IF ~r.ok THEN [ store |-> s, out |-> Forward(r.err) ]
        ELSE IF ~r.found THEN [ store |-> s, out |-> Forward(NotFoundError) ]
        ELSE [ store |-> r.store,
               out   |-> Json(OK, [ data    |-> transform(r.doc),
                                    code    |-> OK,
                                    message |-> SuccessMessages.DELETED ]) ]

delete(s, req) ==
    LET r == findByIdAndDelete(s, req.params.id)
    IN  IF ~r.ok THEN [ store |-> s, out |-> Forward(r.err) ]
        ELSE IF ~r.found THEN [ store |-> s, out |-> Forward(NotFoundError) ]
        ELSE [ store |-> r.store,
               out   |-> Json(OK, [ data    |-> toObject(r.doc),
                                    code    |-> OK,
                                    message |-> SuccessMessages.DELETED ]) ]

----------------------------------------------------------------------------
(* The query plan of list (getFieldAsArray, removeReservedVars,             *)
(* arrayOmitter and the three _build helpers).  A query-string value is     *)
(* [defined, value]: undefined when the parameter is missing.               *)

Q_page    == <<"p","a","g","e">>
Q_perPage == <<"p","e","r","P","a","g","e">>
Q_asc     == <<"a","s","c">>
Q_dsc     == <<"d","s","c">>
Q_fields  == <<"f","i","e","l","d","s">>
Q_query   == <<"q","u","e","r","y">>

\* utils/constants/settings.js
reservedVar == <<Q_page, Q_perPage, Q_asc, Q_dsc, Q_fields, Q_query>>

Undefined == [ defined |-> FALSE ]
Defined(v) == [ defined |-> TRUE, value |-> v ]

\* req.query[key]
Param(query, key) == IF key \in DOMAIN query THEN Defined(query[key]) ELSE Undefined

\* a string is truthy unless it is empty
Truthy(field) == field.defined /\ field.value # <<>>

\* a parameter given more than once reaches the handler as an array of strings,
\* written <<"array", item, ..>>
IsArray(value) == value # <<>> /\ value[1] = "array"

getFieldAsArray(field) ==
    IF Truthy(field)
    THEN LET parts == split(field.value, ",")
         IN  Defined([i \in DOMAIN parts |-> trim(parts[i])])
    ELSE Undefined

\* field.split(",") on a truthy value that is not a string: an array has no
\* split method, and the call throws a TypeError
planThrows(req) ==
    \E key \in {Q_asc, Q_dsc, Q_fields} :
        Truthy(Param(req.query, key)) /\ IsArray(req.query[key])

\* a variant of removeReservedVars that removes nothing
removeReservedVars_keepAll(queries, dissolvers) == queries

removeReservedVars(queries, dissolvers) ==
    [ k \in {key \in DOMAIN queries : ~includes(dissolvers, key) /\ ~startsWith(key, "$")}
        |-> queries[k] ]

\* arr.splice(index, 1)
RemoveAt(arr, index) == SubSeq(arr, 1, index - 1) \o SubSeq(arr, index + 1, Len(arr))

RECURSIVE arrayOmitter(_, _)
arrayOmitter(arr, values) ==
    IF values = <<>> THEN arr
    ELSE LET index == indexOf(arr, Head(values))
         IN  arrayOmitter(IF index # 0 THEN RemoveAt(arr, index) ELSE arr, Tail(values))

\* sortOrder[field] = dir on an object kept as its ordered entries
Assign(obj, field, dir) ==
    IF \E i \in DOMAIN obj : obj[i].field = field
    THEN [ i \in DOMAIN obj |-> IF obj[i].field = field THEN [obj[i] EXCEPT !.dir = dir] ELSE obj[i] ]
    ELSE Append(obj, [ field |-> field, dir |-> dir ])

RECURSIVE AssignAll(_, _, _)
\* fields.forEach((field) => (sortOrder[field] = dir))
AssignAll(obj, fields, dir) ==
    IF fields = <<>> THEN obj
    ELSE AssignAll(Assign(obj, Head(fields), dir), Tail(fields), dir)

\* getFieldAsArray(..) || []
OrEmpty(arr) == IF arr.defined THEN arr.value ELSE <<>>

\* a variant of _buildSortOrder that processes dsc first, so that asc wins
_buildSortOrder_ascLast(req) ==
    LET asc == OrEmpty(getFieldAsArray(Param(req.query, Q_asc)))
        dsc == OrEmpty(getFieldAsArray(Param(req.query, Q_dsc)))
    IN  AssignAll(AssignAll(<<>>, dsc, -1), asc, 1)

_buildSortOrder(req) ==
    LET asc == OrEmpty(getFieldAsArray(Param(req.query, Q_asc)))
        dsc == OrEmpty(getFieldAsArray(Param(req.query, Q_dsc)))
    IN  AssignAll(AssignAll(<<>>, asc, 1), dsc, -1)

\* the projection: the object { field: 0, .. }, a space-separated string, or null
_buildFieldSelection(req) ==
    LET attributes == getFieldAsArray(Param(req.query, Q_fields))
        excludedFields == protectedFields
    IN  IF ~attributes.defined
        THEN [ kind |-> "exclude", fields |-> excludedFields ]
        ELSE LET kept == arrayOmitter(attributes.value, excludedFields)
             IN  IF Len(kept) > 0
                 THEN [ kind |-> "string", value |-> join(kept, <<" ">>) ]
                 ELSE [ kind |-> "null" ]

\* schema.indexes(): the key specification of every declared index
SchemaIndexes ==
    << << [field |-> F_name, kind |-> "1"] >>,
       << [field |-> F_slug, kind |-> "1"] >>,
       << [field |-> F_status, kind |-> "1"] >>,
       << [field |-> F_name, kind |-> "1"], [field |-> F_status, kind |-> "1"] >>,
       << [field |-> F_status, kind |-> "1"], [field |-> F_created_at, kind |-> "-1"] >>,
       << [field |-> F_slug, kind |-> "1"] >> >>

\* this._model: what the controller reads of the model it is bound to
Company == [ indexes |-> SchemaIndexes, searchableFields |-> searchableFields ]

\* a variant of hasTextIndex that finds no text index
hasTextIndex_never(model) == FALSE

hasTextIndex(model) ==
    \E i \in DOMAIN model.indexes :
        \E j \in DOMAIN model.indexes[i] : model.indexes[i][j].kind = "text"

\* the filter: eq holds the literal conditions, or the $or of regex
\* conditions, text the $text search
_buildQueryConditions(model, req, findQuery) ==
    LET q == Param(req.query, Q_query)
        literals == [ k \in {key \in DOMAIN req.query :
                                ~startsWith(key, "$") /\ ~includes(reservedVar, key)}
                        |-> req.query[k] ]
        finalQuery == literals @@ findQuery
    IN  IF Truthy(q) /\ hasTextIndex(model)
        THEN [ eq |-> findQuery, or |-> <<>>, text |-> Defined(q.value) ]
        ELSE IF Truthy(q)
        THEN [ eq   |-> finalQuery,
               or   |-> [ i \in DOMAIN model.searchableFields |->
                            [ field |-> model.searchableFields[i], regex |-> q.value,
                              options |-> "i" ] ],
               text |-> Undefined ]
        ELSE [ eq |-> finalQuery, or |-> <<>>, text |-> Undefined ]

----------------------------------------------------------------------------
(* Running a query on the collection (countDocuments, find, select, sort,   *)
(* skip, limit, exec).                                                      *)

StringPaths == {F_name, F_slug, F_status}
NumberPaths == {F_id, F_v, F_created_at, F_updated_at}

\* the collation's order of characters, case ignored
CollationOrder == <<" ", "_", "-", ",", ".", "!", "&", "$">> \o DigitChars \o LowerChars

RankOf == [c \in Range(CollationOrder) |-> IndexIn(c, CollationOrder)]

CollationRank(c) == IF LowerChar(c) \in DOMAIN RankOf THEN RankOf[LowerChar(c)] ELSE 0

RECURSIVE CompareStrings(_, _)
CompareStrings(a, b) ==
    IF a = <<>> /\ b = <<>> THEN 0
    ELSE IF a = <<>> THEN -1
    ELSE IF b = <<>> THEN 1
    ELSE IF CollationRank(Head(a)) < CollationRank(Head(b)) THEN -1
    ELSE IF CollationRank(Head(a)) > CollationRank(Head(b)) THEN 1
    ELSE CompareStrings(Tail(a), Tail(b))

CompareValues(d1, d2, field) ==
    IF field \in StringPaths THEN CompareStrings(d1[field], d2[field])
    ELSE IF field \in NumberPaths
    THEN (IF d1[field] < d2[field] THEN -1 ELSE IF d1[field] > d2[field] THEN 1 ELSE 0)
    ELSE 0

RECURSIVE CompareDocs(_, _, _)
CompareDocs(d1, d2, sortOrder) ==
    IF sortOrder = <<>> THEN 0
    ELSE LET c == CompareValues(d1, d2, Head(sortOrder).field) * Head(sortOrder).dir
         IN  IF c # 0 THEN c ELSE CompareDocs(d1, d2, Tail(sortOrder))

RECURSIVE InsertInOrder(_, _, _)
InsertInOrder(d, sorted, sortOrder) ==
    IF sorted = <<>> THEN <<d>>
    ELSE IF CompareDocs(d, Head(sorted), sortOrder) <= 0 THEN <<d>> \o sorted
    ELSE <<Head(sorted)>> \o InsertInOrder(d, Tail(sorted), sortOrder)

RECURSIVE sort(_, _)
\* query.sort(sortOrder): documents that compare equal keep their stored order
sort(docs, sortOrder) ==
    IF docs = <<>> THEN <<>>
    ELSE InsertInOrder(Head(docs), sort(Tail(docs), sortOrder), sortOrder)

Contains(s, sub) ==
    \E i \in 0..(Len(s) - Len(sub)) : SubSeq(s, i + 1, i + Len(sub)) = sub

\* { field: value } on a string path, compared under the schema collation; the
\* requests of the model put literal conditions on string paths and on paths
\* the schema does not have
EqHolds(doc, key, value) == key \in StringPaths /\ SameUnderCollation(doc[key], value)

\* pattern.test(s) for a pattern of literal characters and the metacharacter
\* ".", which matches any character
RegexFinds(s, pattern) ==
    \E i \in 0..(Len(s) - Len(pattern)) :
        \A j \in DOMAIN pattern : pattern[j] = "." \/ pattern[j] = s[i + j]

\* { field: { $regex: q, $options: "i" } }: q is the source of the pattern
RegexHolds(doc, cond) ==
    /\ cond.field \in DOMAIN doc
    /\ RegexFinds(toLowerCase(doc[cond.field]), toLowerCase(cond.regex))

Matches(doc, conditions) ==
    /\ \A key \in DOMAIN conditions.eq : EqHolds(doc, key, conditions.eq[key])
    /\ \/ conditions.or = <<>>
       \/ \E i \in DOMAIN conditions.or : RegexHolds(doc, conditions.or[i])
    /\ ~conditions.text.defined

Matching(s, conditions) == SelectSeq(s, LAMBDA d : Matches(d, conditions))

\* a variant of countDocuments that ignores the filter, as
\* estimatedDocumentCount does
countDocuments_estimated(s, conditions) == Len(s)

countDocuments(s, conditions) == Len(Matching(s, conditions))

\* query.select(attributes): null leaves the query without a projection, the
\* object excludes its fields, the string includes its words and _id
select(doc, attributes) ==
    IF attributes.kind = "null" THEN doc
    ELSE IF attributes.kind = "exclude"
    THEN [ k \in (DOMAIN doc) \ Range(attributes.fields) |-> doc[k] ]
    ELSE [ k \in (DOMAIN doc) \cap (Range(Words(attributes.value)) \cup {F_id}) |-> doc[k] ]

\* Number(v) for a string: [nan, n]
RECURSIVE DigitsValue(_, _)
DigitsValue(s, acc) ==
    IF s = <<>> THEN acc
    ELSE DigitsValue(Tail(s), 10 * acc + (IndexIn(Head(s), DigitChars) - 1))

ToNumber(s) ==
    LET body == trim(s)
    IN  IF body = <<>> THEN [ nan |-> FALSE, n |-> 0 ]
        ELSE IF \A i \in DOMAIN body : IndexIn(body[i], DigitChars) > 0
        THEN [ nan |-> FALSE, n |-> DigitsValue(body, 0) ]
        ELSE [ nan |-> TRUE, n |-> 0 ]

\* a variant of Slice that skips but does not limit
Slice_noLimit(docs, skipN, limitN) ==
    IF skipN >= Len(docs) THEN <<>> ELSE SubSeq(docs, skipN + 1, Len(docs))

\* cursor.skip(n).limit(m): a limit of 0 is no limit
Slice(docs, skipN, limitN) ==
    LET rest == IF skipN >= Len(docs) THEN <<>> ELSE SubSeq(docs, skipN + 1, Len(docs))
    IN  IF limitN = 0 \/ limitN >= Len(rest) THEN rest ELSE SubSeq(rest, 1, limitN)

\* the failure of the server for a negative or non-numeric skip
BadValueError ==
    [ ctor    |-> "MongoServerError",
      name    |-> "MongoServerError",
      message |-> "Skip value must be non-negative",
      code    |-> 2,
      stack   |-> StackOf("MongoServerError") ]

\* mongoose's CastError for limit(v) with a string that is not a number
LimitCastError ==
    [ ctor    |-> "CastError",
      name    |-> "CastError",
      message |-> "Cast to Number failed",
      stack   |-> StackOf("CastError") ]

\* list up to the first await: the plan and the count
listCount(s, req) ==
    LET findQuery == removeReservedVars(req.query, reservedVar)
        sortOrder == _buildSortOrder(req)
        attributes == _buildFieldSelection(req)
        queryConditions == _buildQueryConditions(Company, req, findQuery)
    IN  [ req             |-> req,
          sortOrder       |-> sortOrder,
          attributes      |-> attributes,
          queryConditions |-> queryConditions,
          totalCount      |-> countDocuments(s, queryConditions),
          dirty           |-> FALSE ]

\* a variant of listResponse that reports the size of the page as the total
listResponse_pageAsTotal(results, totalCount) ==
    Json(OK, [ data    |-> [ i \in DOMAIN results |-> toObject(results[i]) ],
               code    |-> OK,
               count   |-> Len(results),
               total   |-> Len(results),
               message |-> IF Len(results) > 0 THEN SuccessMessages.RETRIEVED
                           ELSE ErrorMessages.NOT_FOUND ])

\* res.status(OK).json({ data: results, code, count, total, message }): each
\* document is serialized by its toJSON
listResponse(results, totalCount) ==
    Json(OK, [ data    |-> [ i \in DOMAIN results |-> toObject(results[i]) ],
               code    |-> OK,
               count   |-> Len(results),
               total   |-> totalCount,
               message |-> IF Len(results) > 0 THEN SuccessMessages.RETRIEVED
                           ELSE ErrorMessages.NOT_FOUND ])

\* list after the count: the find, its pagination, and the response
listFind(s, l) ==
    LET query == l.req.query
        page == IF Q_page \in DOMAIN query THEN ToNumber(query[Q_page]) ELSE [nan |-> FALSE, n |-> 1]
        perPage == IF Q_perPage \in DOMAIN query THEN ToNumber(query[Q_perPage])
                   ELSE [nan |-> FALSE, n |-> 10]
        shouldPaginate == Truthy(Param(query, Q_perPage))
        skipN == (page.n - 1) * perPage.n
        found == sort(Matching(s, l.queryConditions), l.sortOrder)
        paged == IF shouldPaginate THEN Slice(found, skipN, perPage.n) ELSE found
        results == [ i \in DOMAIN paged |-> select(paged[i], l.attributes) ]
    IN  IF shouldPaginate /\ perPage.nan THEN Forward(LimitCastError)
        ELSE IF shouldPaginate /\ (page.nan \/ skipN < 0) THEN Forward(BadValueError)
        ELSE IF \E i \in DOMAIN results : VirtualsThrow(results[i])
        THEN Forward(TypeError("Cannot read properties of undefined"))
        ELSE listResponse(results, l.totalCount)

----------------------------------------------------------------------------
(* The requests of the model.                                               *)

Envs == {"development", "production", "test"}

\* the names and the status value the requests of the model carry
Sample == [ acme     |-> <<"a","c","m","e">>,
            acmeBang |-> <<"A","c","m","e","!">>,
            betaCo   |-> <<"b","e","t","a"," ","c","o">>,
            blank    |-> <<" "," ">>,
            bogus    |-> <<"b","o","g","u","s">> ]

Names == {Sample.acme, Sample.acmeBang, Sample.betaCo}

EmptyObject == [ k \in {} |-> k ]

CreateBodies ==
    { (F_name :> n) : n \in Names \cup {Sample.blank} }
    \cup { (F_name :> Sample.acme) @@ (F_status :> st) : st \in {StatusInactive, Sample.bogus} }
    \cup { (F_name :> n) @@ (F_id :> 1) : n \in {Sample.acme, Sample.betaCo} }
    \cup { EmptyObject }

UpdateBodies ==
    { (F_name :> n) : n \in {Sample.acme, Sample.betaCo, Sample.blank} }
    \cup { (F_status :> st) : st \in {StatusInactive, Sample.bogus} }
    \cup { EmptyObject }

\* payloads sent to the validated routes only: two fields that fail at once
RouteOnlyBodies == { (F_name :> Sample.blank) @@ (F_status :> Sample.bogus) }

IdParams == Ids \cup {MalformedId}

\* one optional query-string parameter
Opt(key, field) == IF field.defined THEN (key :> field.value) ELSE EmptyObject

FieldsInputs ==
    { Defined(<<"n","a","m","e",",","s","l","u","g",",","s","t","a","t","u","s">>),
      Defined(<<" ","n","a","m","e"," ",","," ","c","r","e","a","t","e","d","_","a","t",",","s","t","a","t","u","s">>),
      Defined(<<"c","r","e","a","t","e","d","_","a","t">>),
      Defined(<<"u","p","d","a","t","e","d","_","a","t",",","u","p","d","a","t","e","d","_","a","t",",","n","a","m","e",",","s","t","a","t","u","s">>),
      Defined(<<"n","a","m","e">>) }

ListQueries ==
    LET PageInputs    == { Undefined, Defined(<<"0">>), Defined(<<"2">>) }
        PerPageInputs == { Undefined, Defined(<<>>), Defined(<<"1">>), Defined(<<"2">>) }
        AscInputs     == { Undefined, Defined(F_name \o <<","," ">> \o F_created_at) }
        DscInputs     == { Undefined, Defined(F_name), Defined(F_created_at) }
        FilterInputs  == { EmptyObject, (F_status :> StatusInactive),
                           (F_name :> <<"A","C","M","E">>) }
    IN  { Opt(Q_fields, f) : f \in FieldsInputs }
        \cup { Opt(Q_page, pg) @@ Opt(Q_perPage, pp) : pg \in PageInputs, pp \in PerPageInputs }
        \cup { Opt(Q_page, pg) @@ (Q_perPage :> <<"1">>) @@ (Q_dsc :> F_name) :
                   pg \in {Undefined, Defined(<<"2">>)} }
        \cup { Opt(Q_asc, a) @@ Opt(Q_dsc, d) : a \in AscInputs, d \in DscInputs }
        \cup { (Q_asc :> F_name) @@ (Q_dsc :> F_name) }
        \cup { Opt(Q_query, q) @@ flt :
                   q \in {Undefined, Defined(<<"a","c","m">>)}, flt \in FilterInputs }
        \cup { (Q_query :> <<"a","c","m">>) @@ (Q_perPage :> <<"1">>) }
        \cup { (Q_query :> <<"a",".","m">>) }
        \cup { (<<"$","w","h","e","r","e">> :> <<"1">>) @@ (Q_page :> <<"2">>)
                   @@ (F_status :> StatusActive) }
        \cup { (Q_perPage :> pp) : pp \in { <<"x">>, <<"0">> } }
        \cup { (Q_asc :> <<"array", F_name, F_slug>>) }

Request(method, url, params, query, body) ==
    [ method |-> method, originalUrl |-> url, params |-> params,
      query |-> query, body |-> body ]

----------------------------------------------------------------------------
(* The process: the HTTP server with its shutdown hooks (server.js) and the *)
(* database connection (config/lib/db.js).  Time is counted in seconds; a   *)
(* timer is the number of seconds left before it is due.                    *)

MaxConns == 2       \* client connections open at once
MaxSignals == 2     \* signals delivered to one process
MaxCalls == 2       \* connectDB calls waiting for mongoose.connect at once
MaxRetries == 2     \* calls started by a timer that are told apart
MaxTimers == 3      \* connectDB timers pending at once

ForceAfter == 5     \* setTimeout(..., 5000) of the shutdown hook
RetryAfter == 5     \* setTimeout(connectDB, 5000)

Signals == {"SIGTERM", "SIGINT"}

\* the process once httpServer.listen and registerShutdownHooks have run:
\* exit is <<>> while the process runs and <<code>> once process.exit(code) ran
Booted ==
    [ listening |-> TRUE, conns |-> 0, signals |-> <<>>, onClose |-> 0,
      timers |-> <<>>, exit |-> <<>> ]

processExit(p, code) == [ p EXCEPT !.exit = <<code>> ]

\* a shutdown hook that closes the server and sets no timer
gracefulShutdown_noTimer(p, signal) ==
    [ p EXCEPT !.signals = Append(@, signal),
               !.listening = FALSE,
               !.onClose = @ + 1 ]

\* server.close(callback) stops the server from accepting and keeps the
\* callback for the 'close' event; setTimeout adds a timer of its own, and
\* nothing clears the timer of an earlier signal
gracefulShutdown(p, signal) ==
    [ p EXCEPT !.signals = Append(@, signal),
               !.listening = FALSE,
               !.onClose = @ + 1,
               !.timers = Append(@, ForceAfter) ]

\* the server emits 'close' once it no longer listens and its last
\* connection has ended
serverDrained(p) == ~p.listening /\ p.conns = 0

\* a second of time with no timer due
Elapse(timers) == [ i \in DOMAIN timers |-> timers[i] - 1 ]

\* the connection before startServer has called connectDB
Unconnected ==
    [ started |-> FALSE, reachable |-> TRUE, readyState |-> "disconnected",
      calls |-> 0, retries |-> 0, timers |-> <<>>, promise |-> "none",
      event |-> "none" ]

\* setTimeout(connectDB, 5000): the timers in the order they fall due
retryLater(d) == [ d EXCEPT !.timers = Append(@, RetryAfter) ]

\* mongoose.connection.on('disconnected')
onDisconnected(d) == retryLater(d)

\* connectDB up to its await: mongoose.connect starts connecting unless the
\* connection is open or opening already; calls beyond MaxCalls wait on the
\* attempt of a call that waits already and settle with it
connectDB(d) ==
    [ d EXCEPT !.calls = IF @ < MaxCalls THEN @ + 1 ELSE @,
               !.readyState = IF @ = "disconnected" THEN "connecting" ELSE @ ]

\* a catch block that logs the failure and schedules nothing
connectSettles_givesUp(d) ==
    LET done == [ d EXCEPT !.calls = @ - 1, !.promise = "fulfilled" ]
    IN  IF d.readyState = "connected" \/ d.reachable
        THEN { [ done EXCEPT !.readyState = "connected",
                             !.event = "resolved" ] }
        ELSE { [ done EXCEPT !.readyState = "disconnected",
                             !.event = "caught" ] }

\* connectDB from its await on: the outcomes of one call.  mongoose.connect
\* resolves on an open connection and on a store it reaches; otherwise it
\* rejects inside the try block, and the catch block schedules the next call
\* and falls off the end of the function.  mongoose puts the connection that
\* failed to open back to disconnected, and whether that emits
\* 'disconnected' is the library's choice: both outcomes are kept
connectSettles(d) ==
    LET done == [ d EXCEPT !.calls = @ - 1, !.promise = "fulfilled" ]
        failed == [ done EXCEPT !.readyState = "disconnected",
                                !.event = "caught" ]
    IN  IF d.readyState = "connected" \/ d.reachable
        THEN { [ done EXCEPT !.readyState = "connected",
                             !.event = "resolved" ] }
        ELSE { retryLater(failed), retryLater(onDisconnected(failed)) }

----------------------------------------------------------------------------
(* The state machine.                                                       *)

NoList == [ idle |-> TRUE ]

Init ==
    /\ env \in Envs
    /\ store = <<>>
    /\ clock = 0
    /\ inflight = NoList
    /\ last = [ op |-> "none" ]
    /\ proc = Booted
    /\ db = Unconnected

\* a committed write is seen by the list request that waits for its find
Touch(l, written) == IF l # NoList /\ written THEN [l EXCEPT !.dirty = TRUE] ELSE l

\* what is kept of a request that was answered: the request, the store as the
\* request found it and its time, the handler's outcome, the response
Completed(op, req, out) ==
    [ op |-> op, req |-> req, before |-> store, at |-> clock + 1,
      out |-> out, res |-> Respond(out, req) ]

\* the handlers of the other requests do not read the suspended list: what
\* they answer is recorded when no list is suspended; while one is, only their
\* effect on the store is kept
Observed(op, req, out) ==
    IF inflight = NoList THEN Completed(op, req, out) ELSE last

Write(op, req, o) ==
    /\ o.store # store => (clock < MaxClock /\ Len(o.store) <= MaxDocs)
    /\ store' = o.store
    /\ clock' = IF o.store # store THEN clock + 1 ELSE clock
    /\ inflight' = Touch(inflight, o.store # store)
    /\ last' = Observed(op, req, o.out)
    /\ UNCHANGED <<proc, db, env>>

Add ==
    \E body \in CreateBodies :
        LET req == Request("POST", "/companies", EmptyObject, EmptyObject, body)
        IN  \E o \in add(store, req, clock + 1) : Write("add", req, o)

Get ==
    \E id \in IdParams :
        LET req == Request("GET", "/companies/:id", [ id |-> id ], EmptyObject, EmptyObject)
        IN  /\ last' = Observed("get", req, get(store, req))
            /\ UNCHANGED <<proc, db, env, store, clock, inflight>>

Update ==
    \E id \in IdParams, body \in UpdateBodies :
        LET req == Request("PATCH", "/companies/:id", [ id |-> id ], EmptyObject, body)
        IN  \E o \in update(store, req, clock + 1) : Write("update", req, o)

Delete ==
    \E id \in IdParams :
        LET req == Request("DELETE", "/companies/:id", [ id |-> id ], EmptyObject, EmptyObject)
        IN  Write("delete", req, delete(store, req))

ListCount ==
    /\ inflight = NoList
    /\ \E query \in ListQueries :
           LET req == Request("GET", "/companies", EmptyObject, query, EmptyObject)
           IN  IF planThrows(req)
               THEN /\ inflight' = NoList
                    /\ last' = Completed("list", req,
                                         Forward(TypeError("field.split is not a function")))
               ELSE /\ inflight' = listCount(store, req)
                    /\ last' = [ op |-> "listCount" ]
    /\ UNCHANGED <<proc, db, env, store, clock>>

ListFind ==
    /\ inflight # NoList
    /\ last' = Completed("list", inflight.req, listFind(store, inflight))
                 @@ [ l |-> inflight ]
    /\ inflight' = NoList
    /\ UNCHANGED <<proc, db, env, store, clock>>

Next == Add \/ Get \/ Update \/ Delete \/ ListCount \/ ListFind

Spec == Init /\ [][Next]_vars

\* the routes that read or write one record, without the listing, for a
\* process that finds the collection empty or holding one company that was
\* created before it started
StoreInit ==
    /\ env \in Envs
    /\ store \in { <<>>, << preSave(construct((F_name :> Sample.betaCo), <<>>), 0) >> }
    /\ clock = 0
    /\ inflight = NoList
    /\ last = [ op |-> "none" ]
    /\ proc = Booted
    /\ db = Unconnected

StoreNext == Add \/ Get \/ Update \/ Delete

StoreSpec == StoreInit /\ [][StoreNext]_vars

----------------------------------------------------------------------------
(* The create and update routes: the request validator, then the            *)
(* controller.  validateRequest checks req.body against the route's Joi     *)
(* schema with abortEarly: false and stripUnknown: true.                    *)

UNPROCESSABLE_ENTITY == 422

\* a Joi detail: the path of the value, the type of the rule and the message
Detail(path, type, message) == [ path |-> path, type |-> type, message |-> message ]

\* Joi.string().trim().max(250) on name, required on create: the value is
\* trimmed before it is tested
NameDetails(body, required) ==
    IF F_name \notin DOMAIN body
    THEN IF required
         THEN << Detail(<<F_name>>, "any.required", <<"\"","n","a","m","e","\""," ","i","s"," ","r","e","q","u","i","r","e","d">>) >>
         ELSE <<>>
    ELSE IF trim(body[F_name]) = <<>>
    THEN << Detail(<<F_name>>, "string.empty", <<"\"","n","a","m","e","\""," ","i","s"," ","n","o","t"," ","a","l","l","o","w","e","d"," ","t","o"," ","b","e"," ","e","m","p","t","y">>) >>
    ELSE IF Len(trim(body[F_name])) > 250
    THEN << Detail(<<F_name>>, "string.max", <<"\"","n","a","m","e","\""," ","l","e","n","g","t","h"," ","m","u","s","t"," ","b","e"," ","l","e","s","s"," ","t","h","a","n"," ","o","r"," ","e","q","u","a","l"," ","t","o"," ","2","5","0"," ","c","h","a","r","a","c","t","e","r","s"," ","l","o","n","g">>) >>
    ELSE <<>>

\* Joi.string().valid(...Object.values(CompanyStatus)) on status
StatusDetails(body) ==
    IF F_status \in DOMAIN body /\ body[F_status] \notin CompanyStatus
    THEN << Detail(<<F_status>>, "any.only", <<"\"","s","t","a","t","u","s","\""," ","m","u","s","t"," ","b","e"," ","o","n","e"," ","o","f"," ","[","a","c","t","i","v","e",","," ","i","n","a","c","t","i","v","e","]">>) >>
    ELSE <<>>

\* Joi.object({..}).min(1) of the update schema
MinKeysDetails(body) ==
    IF DOMAIN body = {}
    THEN << Detail(<<>>, "object.min", <<"\"","v","a","l","u","e","\""," ","m","u","s","t"," ","h","a","v","e"," ","a","t"," ","l","e","a","s","t"," ","1"," ","k","e","y">>) >>
    ELSE <<>>

\* companyValidators: schema.validateAsync(body, { abortEarly: false,
\* stripUnknown: true }).  Either the details of the ValidationError, every
\* failed rule in the order of the schema's keys, or the validated value:
\* the known keys, name trimmed, status defaulted on create
companyValidators ==
    [ create |-> [ body \in CreateBodies \cup RouteOnlyBodies |->
                     LET details == NameDetails(body, TRUE) \o StatusDetails(body)
                     IN  IF details # <<>> THEN [ ok |-> FALSE, details |-> details ]
                         ELSE [ ok |-> TRUE,
                                value |-> (F_name :> trim(body[F_name]))
                                          @@ (F_status :> IF F_status \in DOMAIN body
                                                           THEN body[F_status]
                                                           ELSE StatusActive) ] ],
      update |-> [ body \in UpdateBodies \cup RouteOnlyBodies |->
                     LET details == NameDetails(body, FALSE) \o StatusDetails(body)
                                    \o MinKeysDetails(body)
                     IN  IF details # <<>> THEN [ ok |-> FALSE, details |-> details ]
                         ELSE [ ok |-> TRUE,
                                value |-> [ k \in (DOMAIN body) \cap {F_name, F_status} |->
                                              IF k = F_name THEN trim(body[k]) ELSE body[k] ] ] ] ]

\* detail.path.join(".") for a path of at most one key
JoinPath(path) == IF path = <<>> THEN <<>> ELSE path[1]

getAISuggestion(detail) ==
    IF detail.type = "string.empty" THEN "Please provide a value for this field"
    ELSE IF detail.type = "string.email" THEN "The email should be in format user@example.com"
    ELSE IF detail.type = "any.required" THEN "This field is required"
    ELSE "Please check the field value"

mapErrorCode(type) ==
    IF type = "any.required" THEN "REQUIRED_FIELD"
    ELSE IF type = "string.empty" THEN "EMPTY_FIELD"
    ELSE IF type = "string.email" THEN "INVALID_EMAIL"
    ELSE IF type = "string.min" THEN "MIN_LENGTH"
    ELSE IF type = "string.max" THEN "MAX_LENGTH"
    ELSE IF type = "string.pattern.base" THEN "INVALID_FORMAT"
    ELSE "VALIDATION_ERROR"

\* a variant of enhancedErrors that keeps the first detail only
enhancedErrors_firstOnly(details) ==
    << [ field      |-> JoinPath(details[1].path),
         message    |-> stripPunctuation(details[1].message),
         type       |-> details[1].type,
         suggestion |-> getAISuggestion(details[1]),
         code       |-> mapErrorCode(details[1].type) ] >>

enhancedErrors(details) ==
    [ i \in DOMAIN details |->
        [ field      |-> JoinPath(details[i].path),
          message    |-> stripPunctuation(details[i].message),
          type       |-> details[i].type,
          suggestion |-> getAISuggestion(details[i]),
          code       |-> mapErrorCode(details[i].type) ] ]

\* validateRequest(schema)(req, res, next): the calls of next it makes, in
\* order, and the request as it leaves it.  ErrorMessages has no key
\* VALIDATION_ERROR: the message of the APIError is undefined, which
\* Error(message) keeps as the empty message
validateRequest(schema, req) ==
    LET result == schema[req.body]
    IN  IF result.ok
        THEN [ nexts |-> << [ error |-> FALSE ] >>,
               req   |-> req @@ [ validatedData |-> result.value ] ]
        ELSE [ nexts |-> << [ error |-> TRUE,
                              err   |-> NewAPIError(
                                            [ message  |-> "",
                                              status   |-> UNPROCESSABLE_ENTITY,
                                              errors   |-> enhancedErrors(result.details),
                                              metadata |-> "suggestedFix" ]) ] >>,
               req   |-> req ]

\* what is kept of a request to a validated route: the calls of next the
\* validator made, and how many times the controller was invoked
Routed(op, req, v, out) ==
    Completed(op, req, out) @@ [ nexts |-> v.nexts, controller |-> IF v.nexts[1].error THEN 0 ELSE 1 ]

\* router.post("/", validateRequest(companyValidators.create), add)
PostCompany ==
    \E body \in CreateBodies \cup RouteOnlyBodies :
        LET req == Request("POST", "/companies", EmptyObject, EmptyObject, body)
            v == validateRequest(companyValidators.create, req)
        IN  IF v.nexts[1].error
            THEN /\ last' = Routed("post", req, v, Forward(v.nexts[1].err))
                 /\ UNCHANGED <<proc, db, env, store, clock, inflight>>
            ELSE \E o \in add(store, v.req, clock + 1) :
                     /\ o.store # store => (clock < MaxClock /\ Len(o.store) <= MaxDocs)
                     /\ store' = o.store
                     /\ clock' = IF o.store # store THEN clock + 1 ELSE clock
                     /\ last' = Routed("post", req, v, o.out)
                     /\ UNCHANGED <<proc, db, env, inflight>>

\* router.patch("/:id", validateRequest(companyValidators.update), update)
PatchCompany ==
    \E id \in IdParams, body \in UpdateBodies \cup RouteOnlyBodies :
        LET req == Request("PATCH", "/companies/:id", [ id |-> id ], EmptyObject, body)
            v == validateRequest(companyValidators.update, req)
        IN  IF v.nexts[1].error
            THEN /\ last' = Routed("patch", req, v, Forward(v.nexts[1].err))
                 /\ UNCHANGED <<proc, db, env, store, clock, inflight>>
            ELSE \E o \in update(store, v.req, clock + 1) :
                     /\ o.store # store => (clock < MaxClock /\ Len(o.store) <= MaxDocs)
                     /\ store' = o.store
                     /\ clock' = IF o.store # store THEN clock + 1 ELSE clock
                     /\ last' = Routed("patch", req, v, o.out)
                     /\ UNCHANGED <<proc, db, env, inflight>>

RouteNext == PostCompany \/ PatchCompany

RouteSpec == Init /\ [][RouteNext]_vars

----------------------------------------------------------------------------
(* Shutdown.  registerShutdownHooks installs gracefulShutdown for SIGTERM   *)
(* and SIGINT; clients open and end connections, signals arrive, time       *)
(* passes.  The event loop delivers the server's 'close' event and runs a   *)
(* timer that is due, and time does not stop: these three are the fairness  *)
(* of the specification.  Nothing makes a client end its connection.        *)

Alive == proc.exit = <<>>

ServerAccepts ==
    /\ Alive /\ proc.listening /\ proc.conns < MaxConns
    /\ proc' = [ proc EXCEPT !.conns = @ + 1 ]
    /\ UNCHANGED <<db, env, store, clock, inflight, last>>

ConnectionEnds ==
    /\ Alive /\ proc.conns > 0
    /\ proc' = [ proc EXCEPT !.conns = @ - 1 ]
    /\ UNCHANGED <<db, env, store, clock, inflight, last>>

Signal ==
    \E signal \in Signals :
        /\ Alive /\ Len(proc.signals) < MaxSignals
        /\ proc' = gracefulShutdown(proc, signal)
        /\ UNCHANGED <<db, env, store, clock, inflight, last>>

\* 'close': every callback given to server.close runs; the first one exits
ServerClosed ==
    /\ Alive /\ serverDrained(proc) /\ proc.onClose > 0
    /\ proc' = processExit(proc, 0)
    /\ UNCHANGED <<db, env, store, clock, inflight, last>>

ShutdownTick ==
    /\ Alive /\ proc.timers # <<>>
    /\ \A i \in DOMAIN proc.timers : proc.timers[i] > 0
    /\ proc' = [ proc EXCEPT !.timers = Elapse(@) ]
    /\ UNCHANGED <<db, env, store, clock, inflight, last>>

\* the callback of a shutdown timer
ForceExit ==
    /\ Alive
    /\ \E i \in DOMAIN proc.timers : proc.timers[i] = 0
    /\ proc' = processExit(proc, 1)
    /\ UNCHANGED <<db, env, store, clock, inflight, last>>

ShutdownNext ==
    ServerAccepts \/ ConnectionEnds \/ Signal \/ ServerClosed \/ ShutdownTick
        \/ ForceExit

ShutdownSpec ==
    /\ Init /\ [][ShutdownNext]_vars
    /\ WF_vars(ServerClosed) /\ WF_vars(ShutdownTick) /\ WF_vars(ForceExit)

----------------------------------------------------------------------------
(* Connecting to the database.  startServer calls connectDB once the server *)
(* listens; the store becomes unreachable and reachable again at any time.  *)
(* A connectDB promise that rejected would end the process: startServer     *)
(* exits with code 1 in its catch handler, and a rejection nobody handles   *)
(* (the calls made by timers) ends a Node process with code 1 as well.      *)
(* mongoose.connect settles, the driver notices a lost connection, due      *)
(* timers run and time does not stop: the fairness of the specification.    *)
(* A step that would leave more than MaxTimers timers waits for one to run. *)

StartServer ==
    /\ Alive /\ ~db.started
    /\ db' = [ connectDB(db) EXCEPT !.started = TRUE, !.event = "called" ]
    /\ UNCHANGED <<proc, env, store, clock, inflight, last>>

ConnectSettles ==
    /\ Alive /\ db.calls > 0
    /\ db' \in connectSettles(db)
    /\ Len(db'.timers) <= MaxTimers
    /\ proc' = IF db'.promise = "rejected" THEN processExit(proc, 1) ELSE proc
    /\ UNCHANGED <<env, store, clock, inflight, last>>

\* the driver finds the open connection lost: mongoose emits 'disconnected'
ConnectionDropped ==
    /\ Alive /\ db.readyState = "connected" /\ ~db.reachable
    /\ Len(db.timers) < MaxTimers
    /\ db' = onDisconnected([ db EXCEPT !.readyState = "disconnected",
                                        !.event = "disconnected" ])
    /\ UNCHANGED <<proc, env, store, clock, inflight, last>>

StoreLost ==
    /\ Alive /\ db.reachable
    /\ db' = [ db EXCEPT !.reachable = FALSE ]
    /\ UNCHANGED <<proc, env, store, clock, inflight, last>>

StoreRestored ==
    /\ Alive /\ ~db.reachable
    /\ db' = [ db EXCEPT !.reachable = TRUE ]
    /\ UNCHANGED <<proc, env, store, clock, inflight, last>>

RetryTick ==
    /\ Alive /\ db.timers # <<>>
    /\ \A i \in DOMAIN db.timers : db.timers[i] > 0
    /\ db' = [ db EXCEPT !.timers = Elapse(@), !.event = "tick" ]
    /\ UNCHANGED <<proc, env, store, clock, inflight, last>>

\* a due timer calls connectDB
RetryFires ==
    /\ Alive /\ db.timers # <<>> /\ Head(db.timers) = 0
    /\ db' = [ connectDB([ db EXCEPT !.timers = Tail(@) ])
                 EXCEPT !.retries = IF @ < MaxRetries THEN @ + 1 ELSE @,
                        !.event = "called" ]
    /\ UNCHANGED <<proc, env, store, clock, inflight, last>>

ConnectNext ==
    StartServer \/ ConnectSettles \/ ConnectionDropped \/ StoreLost
        \/ StoreRestored \/ RetryTick \/ RetryFires

ConnectSpec ==
    /\ Init /\ [][ConnectNext]_vars
    /\ WF_vars(StartServer) /\ WF_vars(ConnectSettles)
    /\ WF_vars(ConnectionDropped) /\ WF_vars(RetryTick) /\ WF_vars(RetryFires)

----------------------------------------------------------------------------
(* The error normalizer, the unmatched route and the filter builder on      *)
(* their own: every failure a handler or a middleware can forward, every    *)
(* request no route answers, and the filter for a model with and without a  *)
(* text index.                                                              *)

\* the failures forwarded to the normalizer: APIErrors with and without a
\* status, a message and a list of sub-errors (the list empty or not), plain
\* errors, the failures of the store, mongoose's ValidationError, and
\* express-validation's ValidationError, which is named "ValidationError",
\* carries details and a statusCode, and has no errors property; the last
\* one is a request-validation failure that carries a field mapping as well
Failures ==
    LET FieldError == [ field |-> F_name, message |-> "Company name is required",
                        kind |-> "required" ]
        ExpressValidationError ==
            [ ctor       |-> "ExpressValidationError",
              name       |-> "ValidationError",
              message    |-> "Validation Failed",
              statusCode |-> BAD_REQUEST,
              details    |-> << [ location |-> "body",
                                  items |-> << [ message |-> <<"n","a","m","e","!">>,
                                                 path |-> <<F_name>> ] >> ] >>,
              stack      |-> StackOf("ValidationError") ]
    IN  { APIError(message, status, errors, TRUE, <<>>, FALSE) :
              message \in {"boom", ""},
              status \in {0, BAD_REQUEST, INTERNAL_SERVER_ERROR},
              errors \in { <<>>, <<FieldError>> } }
        \cup { APIError(message, status, <<>>, FALSE, <<>>, FALSE) :
                   message \in {"boom", ""},
                   status \in {0, BAD_REQUEST, NOT_FOUND, INTERNAL_SERVER_ERROR} }
        \cup { TypeError("boom"), TypeError(""), CastError, BadValueError,
               DuplicateKeyError(<<F_name>>),
               TypeError("boom") @@ [ status |-> BAD_REQUEST, errors |-> <<FieldError>> ],
               TypeError("boom") @@ [ status |-> BAD_REQUEST, errors |-> <<>> ],
               TypeError("boom") @@ [ status |-> INTERNAL_SERVER_ERROR,
                                      errors |-> <<FieldError>> ],
               MongooseValidationError(<<FieldError>>),
               MongooseValidationError(<<>>),
               ExpressValidationError,
               ExpressValidationError @@ [ errors |-> <<FieldError>> ] }

\* a handler or a middleware forwards a failure: next(err)
Raise ==
    /\ \E err \in Failures,
          r \in { [ method |-> "GET", url |-> "/companies/:id" ],
                  [ method |-> "POST", url |-> "/companies" ] } :
           LET req == Request(r.method, r.url, EmptyObject, EmptyObject, EmptyObject)
           IN  last' = [ op |-> "error", req |-> req, err |-> err,
                         res |-> convertError(err, req) ]
    /\ UNCHANGED <<proc, db, env, store, clock, inflight>>

\* the limiter every request passes first: it leaves its counters on the
\* request as req.rateLimit
apiLimiter == [ max |-> IF env = "production" THEN 100 ELSE 1000 ]

\* a request within the rate limit that no route answers
Unmatched ==
    /\ \E r \in { [ method |-> "GET", url |-> "/nowhere" ],
                   [ method |-> "DELETE", url |-> "/companies" ] } :
           LET req == Request(r.method, r.url, EmptyObject, EmptyObject, EmptyObject)
                      @@ [ rateLimit |-> [ limit     |-> apiLimiter.max,
                                           current   |-> 1,
                                           remaining |-> apiLimiter.max - 1 ] ]
           IN  last' = [ op |-> "unmatched", req |-> req, res |-> unmatched(req) ]
    /\ UNCHANGED <<proc, db, env, store, clock, inflight>>

\* list builds its filter, for a controller bound to Company or to Company
\* with a text index declared on name
BuildConditions ==
    /\ \E model \in { Company,
                       [ Company EXCEPT !.indexes =
                             Append(@, << [field |-> F_name, kind |-> "text"] >>) ] },
          query \in ListQueries :
           LET req == Request("GET", "/companies", EmptyObject, query, EmptyObject)
           IN  last' = [ op |-> "conditions", req |-> req, model |-> model,
                         conditions |->
                             _buildQueryConditions(model, req,
                                 removeReservedVars(req.query, reservedVar)) ]
    /\ UNCHANGED <<proc, db, env, store, clock, inflight>>

UnitNext == Raise \/ Unmatched \/ BuildConditions

UnitSpec == Init /\ [][UnitNext]_vars

----------------------------------------------------------------------------
(* Properties.  A completed request is read from  last : the request, the   *)
(* store it found ( before ), its outcome and response;  store  is the      *)
(* store it left.                                                           *)

\* the last request was of this kind and was answered
Recorded(op) == last.op = op /\ "out" \in DOMAIN last

\* the last request was a list and it was answered with a listing
ListDone == last.op = "list" /\ last.out.kind = "json"

ProtectedNames == Range(protectedFields)

\* the serialized record without the protected fields
PublicView(doc) ==
    LET full == toObject(doc)
    IN  [ k \in (DOMAIN full) \ ProtectedNames |-> full[k] ]

\* the document a creation payload becomes
NewDocument(s, body, now) == preSave(construct(body, s), now)

\* the payload passes the schema validators of a new document
ValidForCreate(s, body) == PathErrors(construct(body, s), TRUE) = <<>>

\* the unique fields on which a valid creation payload conflicts with the store
ConflictsOnCreate(s, body, now) == ViolatedIndexes(s, NewDocument(s, body, now))

\* "<Field Name> already in use." written out for the unique fields
DuplicateText(field) ==
    IF field = F_name THEN <<"N","a","m","e">> \o AlreadyInUse
    ELSE IF field = F_slug THEN <<"S","l","u","g">> \o AlreadyInUse
    ELSE <<" ","I","d">> \o AlreadyInUse

\* the structured duplicate failure for one of the given violated indexes
IsDuplicateFailure(out, violated) ==
    /\ out.kind = "next"
    /\ out.err.ctor = "APIError"
    /\ out.err.status = BAD_REQUEST
    /\ out.err.message = ErrorMessages.VALIDATION
    /\ "errors" \in DOMAIN out.err
    /\ Len(out.err.errors) = 1
    /\ <<out.err.errors[1].field>> \in violated
    /\ out.err.errors[1].messages = DuplicateText(out.err.errors[1].field)

(* C1 (as stated; refuted): for every value of the fields parameter, no     *)
(* record in the data of a list response contains a field listed in         *)
(* protectedFields.                                                         *)
C1_NoProtectedFieldInList ==
    ListDone =>
        \A i \in DOMAIN last.out.body.data :
            (DOMAIN last.out.body.data[i]) \cap ProtectedNames = {}

\* a listing whose fields parameter named only a protected field, or named one
\* twice, and whose records carry a protected field
C1_ProtectedFieldLeaks ==
    /\ ListDone
    /\ Q_fields \in DOMAIN last.req.query
    /\ \E i \in DOMAIN last.out.body.data :
           (DOMAIN last.out.body.data[i]) \cap ProtectedNames # {}

(* C2 (amended): a valid creation payload that conflicts with the store on  *)
(* a unique field is not persisted and is answered by a forwarded status    *)
(* 400 failure whose errors list has exactly one entry, for the field of    *)
(* the one unique index the store reports as violated, carrying the text    *)
(* "<Field Name> already in use."; no success response is written.          *)
C2_DuplicateOnCreate ==
    (/\ Recorded("add")
     /\ ValidForCreate(last.before, last.req.body)
     /\ ConflictsOnCreate(last.before, last.req.body, last.at) # {})
    => /\ store = last.before
       /\ IsDuplicateFailure(last.out,
                             ConflictsOnCreate(last.before, last.req.body, last.at))
       /\ last.res.status = BAD_REQUEST

(* C2 (as stated; refuted): the errors list has exactly one entry per       *)
(* conflicting unique field.                                                *)
C2_OneEntryPerConflictingField ==
    (/\ Recorded("add")
     /\ ValidForCreate(last.before, last.req.body)
     /\ ConflictsOnCreate(last.before, last.req.body, last.at) # {})
    => /\ last.out.kind = "next"
       /\ last.out.err.status = BAD_REQUEST
       /\ "errors" \in DOMAIN last.out.err
       /\ { <<last.out.err.errors[i].field>> : i \in DOMAIN last.out.err.errors }
              = ConflictsOnCreate(last.before, last.req.body, last.at)
       /\ Len(last.out.err.errors)
              = Cardinality(ConflictsOnCreate(last.before, last.req.body, last.at))

\* a creation refused as a duplicate although it conflicted on two unique
\* fields
C2_DuplicateRefused ==
    /\ Recorded("add")
    /\ last.out.kind = "next"
    /\ IsDuplicateFailure(last.out, ConflictsOnCreate(last.before, last.req.body, last.at))
    /\ Cardinality(ConflictsOnCreate(last.before, last.req.body, last.at)) = 2

(* C3: a valid creation payload that conflicts on no unique field persists  *)
(* exactly one new record and is answered with HTTP status 201 and data     *)
(* equal to the record's public transform: its serialized fields minus      *)
(* every field of protectedFields.                                          *)
C3_CreatePersistsOne ==
    (/\ Recorded("add")
     /\ ValidForCreate(last.before, last.req.body)
     /\ ConflictsOnCreate(last.before, last.req.body, last.at) = {})
    => /\ Len(store) = Len(last.before) + 1
       /\ SubSeq(store, 1, Len(last.before)) = last.before
       /\ store[Len(store)] = NewDocument(last.before, last.req.body, last.at)
       /\ last.res.status = CREATED
       /\ last.res.body.data = PublicView(store[Len(store)])
       /\ (DOMAIN last.res.body.data) \cap ProtectedNames = {}

\* a second company has just been created
C3_Created ==
    /\ Recorded("add")
    /\ last.res.status = CREATED
    /\ Len(store) = 2
    /\ last.res.body.data[V_id] = store[2][F_id]

(* C4 (as stated; refuted): in every response the body's code equals the    *)
(* HTTP status of the response.                                             *)
C4_CodeMirrorsStatus ==
    "res" \in DOMAIN last =>
        /\ "code" \in DOMAIN last.res.body
        /\ last.res.body.code = last.res.status

\* a creation answered with HTTP status 201 and code 200
C4_CreatedWithCodeOK ==
    /\ Recorded("add")
    /\ last.res.status = CREATED
    /\ last.res.body.code = OK

\* the list request did not ask for pagination: perPage missing or empty
Unpaginated(req) == ~Truthy(Param(req.query, Q_perPage))

\* the list request asked for pages of n >= 1 records
PerPageIs(req, n) ==
    /\ Truthy(Param(req.query, Q_perPage))
    /\ ~ToNumber(req.query[Q_perPage]).nan
    /\ ToNumber(req.query[Q_perPage]).n = n
    /\ n >= 1

\* the number of stored records that match the filter of a list request
MatchingNow(l) == Len(Matching(store, l.queryConditions))

\* the list request without its page and perPage parameters
WithoutPaging(req) ==
    [ req EXCEPT !.query = [ k \in (DOMAIN req.query) \ {Q_page, Q_perPage} |-> req.query[k] ] ]

(* C5 (amended): for every list call without perPage, with or without      *)
(* page, across which no other request's write was committed between the    *)
(* count and the fetch, count equals total and both equal the number of     *)
(* records matching the filter; the data holds them all.                    *)
C5_UnpaginatedCountIsTotal ==
    (ListDone /\ Unpaginated(last.req) /\ ~last.l.dirty) =>
        /\ last.res.body.count = last.res.body.total
        /\ last.res.body.total = MatchingNow(last.l)
        /\ Len(last.res.body.data) = MatchingNow(last.l)

(* C5 (as stated; refuted): for every list call without perPage, count      *)
(* equals total and both equal the number of records matching the filter.   *)
C5_UnpaginatedAlways ==
    (ListDone /\ Unpaginated(last.req)) =>
        /\ last.res.body.count = last.res.body.total
        /\ last.res.body.total = MatchingNow(last.l)

\* an undisturbed listing without perPage but with page=2 that returns both
\* stored records
C5_AllReturned ==
    /\ ListDone
    /\ Unpaginated(last.req)
    /\ ~last.l.dirty
    /\ Q_page \in DOMAIN last.req.query
    /\ last.req.query[Q_page] = <<"2">>
    /\ last.res.body.count = 2
    /\ last.res.body.total = 2

C7_StaleTotal ==
    (ListDone /\ last.l.dirty) =>
        /\ last.res.body.total = last.l.totalCount
        /\ last.res.body.count = Len(last.res.body.data)
        /\ Unpaginated(last.req) => last.res.body.count = MatchingNow(last.l)

\* an unpaginated listing across which a write committed: its total is not
\* the number of records matching at the fetch, and its count is not its total
C7_TotalDiffers ==
    /\ ListDone
    /\ last.l.dirty
    /\ Unpaginated(last.req)
    /\ last.res.body.total # MatchingNow(last.l)
    /\ last.res.body.count # last.res.body.total

ValidForUpdate(body) == PathErrors(castUpdate(preFindOneAndUpdate(body)), FALSE) = <<>>

\* the unique fields on which the updated record would conflict with the others
ConflictsOnUpdate(s, id, body, now) ==
    ViolatedIndexes(Others(s, id),
                    castUpdate(preFindOneAndUpdate(body)) @@ (F_updated_at :> now)
                        @@ s[PositionOf(s, id)])

\* what update answers for a well-formed id, by the three cases of the claim
UpdateAnswers(checkValid) ==
    (/\ Recorded("update")
     /\ last.req.params.id \in Ids
     /\ checkValid => ValidForUpdate(last.req.body))
    => LET id == last.req.params.id
           body == last.req.body
       IN  IF id \notin StoredIds(last.before)
           THEN /\ store = last.before
                /\ last.out = Forward(NotFoundError)
                /\ last.res.status = NOT_FOUND
           ELSE IF /\ ValidForUpdate(body)
                   /\ ConflictsOnUpdate(last.before, id, body, last.at) # {}
           THEN /\ store = last.before
                /\ IsDuplicateFailure(last.out,
                                      ConflictsOnUpdate(last.before, id, body, last.at))
                /\ last.res.status = BAD_REQUEST
           ELSE /\ last.res.status = OK
                /\ id \in StoredIds(store)
                /\ last.res.body.data = PublicView(store[PositionOf(store, id)])
                /\ Others(store, id) = Others(last.before, id)

DirectionOf(sortOrder, field) ==
    IF \E i \in DOMAIN sortOrder : sortOrder[i].field = field
    THEN sortOrder[CHOOSE i \in DOMAIN sortOrder : sortOrder[i].field = field].dir
    ELSE 0

AscOf(req) == Range(OrEmpty(getFieldAsArray(Param(req.query, Q_asc))))
DscOf(req) == Range(OrEmpty(getFieldAsArray(Param(req.query, Q_dsc))))

(* C10: the sort order of a list request maps every field named in asc to   *)
(* +1 and every field named in dsc to -1; a field named in both gets -1;    *)
(* it names no other field, and is empty when neither parameter is given.   *)
C10_SortOrder ==
    inflight # NoList =>
        /\ \A f \in DscOf(inflight.req) : DirectionOf(inflight.sortOrder, f) = -1
        /\ \A f \in AscOf(inflight.req) \ DscOf(inflight.req) :
               DirectionOf(inflight.sortOrder, f) = 1
        /\ \A i \in DOMAIN inflight.sortOrder :
               /\ inflight.sortOrder[i].field \in AscOf(inflight.req) \cup DscOf(inflight.req)
               /\ \A j \in DOMAIN inflight.sortOrder :
                      inflight.sortOrder[j].field = inflight.sortOrder[i].field => j = i
        /\ ({Q_asc, Q_dsc} \cap DOMAIN inflight.req.query = {}) => inflight.sortOrder = <<>>

\* a list request that names name in asc and in dsc, and created_at in asc
C10_BothLists ==
    /\ inflight # NoList
    /\ F_name \in AscOf(inflight.req) \cap DscOf(inflight.req)
    /\ F_created_at \in AscOf(inflight.req)
    /\ DirectionOf(inflight.sortOrder, F_name) = -1
    /\ DirectionOf(inflight.sortOrder, F_created_at) = 1

\* the query-string keys that never become a filter condition: the six
\* directives, which are also the list the caller declares, and every key
\* with the operator prefix
ReservedKey(key) ==
    \/ key \in {Q_page, Q_perPage, Q_asc, Q_dsc, Q_fields, Q_query}
    \/ includes(reservedVar, key)
    \/ (key # <<>> /\ key[1] = "$")

\* the literal conditions of a filter are the query-string parameters that
\* are not reserved, with their values, and nothing else
LiteralsOnly(query, conditions) ==
    /\ \A key \in DOMAIN query : ReservedKey(key) => key \notin DOMAIN conditions.eq
    /\ \A key \in DOMAIN conditions.eq :
           key \in DOMAIN query /\ conditions.eq[key] = query[key]
    /\ \A key \in DOMAIN query : ~ReservedKey(key) => key \in DOMAIN conditions.eq

(* C11: the filter of a list request, the one given to the count and kept   *)
(* for the find, holds no condition taken from a query-string key that is   *)
(* page, perPage, asc, dsc, fields or query, that is in the declared        *)
(* reserved list, or that starts with "$"; its literal conditions are the   *)
(* remaining parameters.                                                    *)
C11_NoReservedCondition ==
    /\ inflight # NoList => LiteralsOnly(inflight.req.query, inflight.queryConditions)
    /\ ListDone =>
           /\ last.l.req = last.req
           /\ LiteralsOnly(last.req.query, last.l.queryConditions)

\* a list request in flight that carries an operator-prefixed key, a
\* directive and a literal parameter, and filters on the literal alone
C11_OperatorKeyDropped ==
    /\ inflight # NoList
    /\ \E key \in DOMAIN inflight.req.query : key # <<>> /\ key[1] = "$"
    /\ Q_page \in DOMAIN inflight.req.query
    /\ DOMAIN inflight.queryConditions.eq = {F_status}

\* the record has a searchable field that contains q, case ignored
HasSubstring(doc, q) ==
    \E i \in DOMAIN searchableFields :
        Contains(toLowerCase(doc[searchableFields[i]]), toLowerCase(q))

\* the record satisfies the literal parameters of the query string
SatisfiesLiterals(doc, query) ==
    \A key \in DOMAIN query :
        ~ReservedKey(key) => (key \in DOMAIN doc /\ SameUnderCollation(doc[key], query[key]))

\* the identifiers of the records a listing returned
ReturnedIds == { last.res.body.data[i][V_id] : i \in DOMAIN last.res.body.data }

\* the list request searched: it carried a non-empty query
Searched(req) == Truthy(Param(req.query, Q_query))

(* C12 (as stated; refuted): with no text index, an unpaginated list with   *)
(* query=q returns exactly the records in which a field of searchableFields *)
(* contains q as a case-insensitive substring and which satisfy the other   *)
(* literal parameters, for every q.                                         *)
C12_SearchIsSubstring ==
    (ListDone /\ Searched(last.req) /\ Unpaginated(last.req)) =>
        ReturnedIds =
            { store[i][F_id] : i \in { j \in DOMAIN store :
                  /\ HasSubstring(store[j], last.req.query[Q_query])
                  /\ SatisfiesLiterals(store[j], last.req.query) } }

\* a search for "a.m" that returned a record although no stored record
\* contains "a.m" in a searchable field
C12_DotMatchesAny ==
    /\ ListDone
    /\ Searched(last.req)
    /\ last.req.query[Q_query] = <<"a",".","m">>
    /\ ReturnedIds # {}
    /\ \A i \in DOMAIN store : ~HasSubstring(store[i], <<"a",".","m">>)

(* C13 (as stated; refuted): whatever the values of page, perPage, asc,     *)
(* dsc, fields and query, non-numeric and array-valued ones included, a     *)
(* list request raises nothing and is answered with a 200 listing.          *)
C13_ListNeverFails ==
    Recorded("list") =>
        /\ last.out.kind = "json"
        /\ last.res.status = OK

\* the request is answered with status 500 and without a listing
FailedInternally ==
    /\ last.out.kind = "next"
    /\ last.res.status = INTERNAL_SERVER_ERROR
    /\ "data" \notin DOMAIN last.res.body

\* a list request whose asc parameter was given twice, answered with status
\* 500
C13_RepeatedAscFails ==
    /\ Recorded("list")
    /\ Q_asc \in DOMAIN last.req.query
    /\ IsArray(last.req.query[Q_asc])
    /\ FailedInternally

\* the fields parameter names protected fields and nothing else
OnlyProtected(req) ==
    /\ Truthy(Param(req.query, Q_fields))
    /\ Range(getFieldAsArray(Param(req.query, Q_fields)).value) \subseteq ProtectedNames

(* C14 (as stated; refuted): when fields names only protected fields, the   *)
(* records of the listing carry no payload field beyond the identifier.     *)
C14_OnlyIdentifier ==
    (ListDone /\ OnlyProtected(last.req)) =>
        \A i \in DOMAIN last.res.body.data :
            DOMAIN last.res.body.data[i] \subseteq {F_id, V_id}

\* a listing for fields=created_at whose record carries its name, its status
\* and created_at itself
C14_EveryFieldReturned ==
    /\ ListDone
    /\ OnlyProtected(last.req)
    /\ \E i \in DOMAIN last.res.body.data :
           {F_name, F_status, F_created_at} \subseteq DOMAIN last.res.body.data[i]

\* a failure was forwarded to the normalizer, and  last.res  is the answer
Normalized == last.op = "error"

(* C15 (as stated; refuted): with the error middleware installed by         *)
(* applyErrorMiddleware, a request that matches no route and is within the  *)
(* rate limit is answered with status 404 and the fixed not-found message.  *)
C15_UnmatchedIsNotFound ==
    last.op = "unmatched" =>
        /\ last.res.status = NOT_FOUND
        /\ last.res.body.code = NOT_FOUND
        /\ last.res.body.message = "Resource not found"

\* a request without a route answered with status 429 and the rate-limit
\* message
C15_UnmatchedIsRateLimited ==
    /\ last.op = "unmatched"
    /\ last.req.originalUrl = "/nowhere"
    /\ last.res.status = TOO_MANY_REQUESTS
    /\ last.res.body.message = "Too many requests"

(* C16: in production mode no error response body contains a stack, type,   *)
(* path or method key, whatever the failure and its status.                 *)
C16_NoDiagnosticsInProduction ==
    (env = "production" /\ last.op \in {"error", "unmatched"}) =>
        (DOMAIN last.res.body) \cap {"stack", "type", "path", "method"} = {}

\* in production, an internal failure that carries a stack, answered with
\* status 500
C16_InternalFailureInProduction ==
    /\ env = "production"
    /\ Normalized
    /\ last.err.ctor = "TypeError"
    /\ "stack" \in DOMAIN last.err
    /\ last.res.status = INTERNAL_SERVER_ERROR
    /\ last.res.body.success = FALSE

\* the message of the ErrorValue a failure is converted to
CarriedMessage(err) ==
    IF err.name = "ValidationError" THEN "VALIDATION_ERROR"
    ELSE IF err.message # "" THEN err.message
    ELSE "Internal Server Error"

\* the status of the ErrorValue a failure is converted to
CarriedStatus(err) ==
    IF err.name = "ValidationError" THEN BAD_REQUEST
    ELSE IF "status" \in DOMAIN err /\ err.status # 0 THEN err.status
    ELSE INTERNAL_SERVER_ERROR

(* C17: in production mode, every error response whose final status is at   *)
(* least 500 carries the generic internal-error message instead of the      *)
(* failure's own and carries no errors list; a response with a status       *)
(* below 500 keeps the message and the errors of its ErrorValue.  (A        *)
(* failure on which the normalizer itself throws is answered by Express     *)
(* with its own status-500 page, which has neither key.)                    *)
C17_ServerErrorsObfuscated ==
    (env = "production" /\ Normalized) =>
        \/ last.res = UnhandledResponse
        \/ IF last.res.status >= 500
           THEN /\ last.res.body.message = "Internal Server Error"
                /\ "errors" \notin DOMAIN last.res.body
           ELSE /\ last.res.body.message = CarriedMessage(last.err)
                /\ "errors" \in DOMAIN last.err =>
                       /\ "errors" \in DOMAIN last.res.body
                       /\ Len(last.res.body.errors) = Len(last.err.errors)
                       /\ \A i \in DOMAIN last.err.errors :
                              last.res.body.errors[i].field = last.err.errors[i].field

\* in production, a status-500 failure with its own message and a list of
\* sub-errors, answered with the generic message and without the list
C17_OwnMessageReplaced ==
    /\ env = "production"
    /\ Normalized
    /\ last.err.message = "boom"
    /\ "errors" \in DOMAIN last.err
    /\ last.err.errors # <<>>
    /\ last.res.status = INTERNAL_SERVER_ERROR
    /\ last.res.body.message = "Internal Server Error"
    /\ "errors" \notin DOMAIN last.res.body

(* C18 (as stated; refuted): for every failure the normalizer writes a      *)
(* response with success false, code equal to the ErrorValue's status, a    *)
(* message, and an errors key only when the ErrorValue carries a non-empty  *)
(* list of sub-errors: an empty list yields no errors key.                  *)
C18_OneEnvelope ==
    Normalized =>
        /\ "success" \in DOMAIN last.res.body
        /\ last.res.body.success = FALSE
        /\ last.res.body.code = CarriedStatus(last.err)
        /\ last.res.status = last.res.body.code
        /\ "message" \in DOMAIN last.res.body
        /\ "errors" \in DOMAIN last.res.body =>
               ("errors" \in DOMAIN last.err /\ last.err.errors # <<>>)

\* an APIError that carries an empty list of sub-errors, answered with an
\* errors key holding the empty list
C18_EmptyErrorsEmitted ==
    /\ Normalized
    /\ last.err.ctor = "APIError"
    /\ "errors" \in DOMAIN last.err
    /\ last.err.errors = <<>>
    /\ "errors" \in DOMAIN last.res.body
    /\ last.res.body.errors = <<>>

\* the number a page or perPage parameter stands for, given its default
NumberOf(req, key, default) ==
    IF key \in DOMAIN req.query THEN ToNumber(req.query[key]).n ELSE default

\* page and perPage, where supplied, are written in digits
NumericPaging(req) ==
    \A key \in {Q_page, Q_perPage} \cap DOMAIN req.query : ~ToNumber(req.query[key]).nan

\* the sorted matching records from the offset on, at most n of them
SliceOf(all, offset, n) ==
    IF offset < 0 \/ offset >= Len(all) THEN <<>>
    ELSE SubSeq(all, offset + 1, IF offset + n < Len(all) THEN offset + n ELSE Len(all))

(* C19 (as stated; refuted): an answered list request with perPage supplied *)
(* returns exactly the slice of the sorted matching records that starts at  *)
(* offset (page-1) x perPage and has at most perPage records, page being 1  *)
(* when absent; with perPage absent it returns all of them, whatever page.  *)
C19_PageIsSlice ==
    (ListDone /\ NumericPaging(last.req)) =>
        LET all == sort(Matching(store, last.l.queryConditions), last.l.sortOrder)
            perPage == NumberOf(last.req, Q_perPage, 10)
            page == NumberOf(last.req, Q_page, 1)
            expected == IF Unpaginated(last.req) THEN all
                        ELSE SliceOf(all, (page - 1) * perPage, perPage)
        IN  /\ Len(last.res.body.data) = Len(expected)
            /\ \A i \in DOMAIN expected : last.res.body.data[i][V_id] = expected[i][F_id]
            /\ ~Unpaginated(last.req) => Len(last.res.body.data) <= perPage

\* a listing for perPage=0 that returned both stored records
C19_ZeroPerPageReturnsAll ==
    /\ ListDone
    /\ Q_perPage \in DOMAIN last.req.query
    /\ last.req.query[Q_perPage] = <<"0">>
    /\ Len(last.res.body.data) = 2

\* the model declares an index with a text key
DeclaresTextIndex(model) ==
    \E i \in DOMAIN model.indexes :
        \E j \in DOMAIN model.indexes[i] : model.indexes[i][j].kind = "text"

(* C20: for a list request with query, a model that declares a text index   *)
(* gets the full-text condition and no per-field regex; a model without      *)
(* one gets a case-insensitive regex on every field of searchableFields and *)
(* no full-text condition; in both cases, as without query, the literal     *)
(* conditions are exactly the non-reserved parameters, so that both         *)
(* strategies apply the same literal filters.                               *)
C20_SearchStrategy ==
    last.op = "conditions" =>
        LET c == last.conditions
            query == last.req.query
            fields == last.model.searchableFields
        IN  /\ LiteralsOnly(query, c)
            /\ (Searched(last.req) /\ DeclaresTextIndex(last.model)) =>
                   /\ c.text = Defined(query[Q_query])
                   /\ c.or = <<>>
            /\ (Searched(last.req) /\ ~DeclaresTextIndex(last.model)) =>
                   /\ ~c.text.defined
                   /\ Len(c.or) = Len(fields)
                   /\ \A i \in DOMAIN fields :
                          c.or[i] = [ field |-> fields[i], regex |-> query[Q_query],
                                      options |-> "i" ]
            /\ ~Searched(last.req) => (~c.text.defined /\ c.or = <<>>)

\* the filter of a search with a literal parameter, built for a model with a
\* text index: the full-text condition and the literal condition
C20_TextSearchWithLiteral ==
    /\ last.op = "conditions"
    /\ DeclaresTextIndex(last.model)
    /\ Searched(last.req)
    /\ last.conditions.text.defined
    /\ DOMAIN last.conditions.eq = {F_status}
    /\ last.conditions.or = <<>>

\* the driver's duplicate-key failure as the store raised it
RawDuplicate(err) ==
    /\ "code" \in DOMAIN err
    /\ err.code = 11000
    /\ "keyPattern" \in DOMAIN err
    /\ err.keyPattern # <<>>

(* C21: add, list, get, update and delete end every request with exactly    *)
(* one outcome: either the handler writes one response, a success (status   *)
(* 200 or 201, code 200, no error envelope), or it hands the raised failure *)
(* to next, and then the response is the normalizer's; in add and update    *)
(* the failure handed over is never the store's raw duplicate-key failure.  *)
C21_OneOutcome ==
    (\E op \in {"add", "list", "get", "update", "delete"} : Recorded(op)) =>
        /\ last.out.kind \in {"json", "next"}
        /\ last.out.kind = "json" =>
               /\ DOMAIN last.out = {"kind", "status", "body"}
               /\ last.out.status \in {OK, CREATED}
               /\ last.out.body.code = OK
               /\ "success" \notin DOMAIN last.out.body
               /\ last.res = [ status |-> last.out.status, body |-> last.out.body ]
        /\ last.out.kind = "next" =>
               /\ DOMAIN last.out = {"kind", "err"}
               /\ last.res = convertError(last.out.err, last.req)
               /\ last.op \in {"add", "update"} => ~RawDuplicate(last.out.err)

\* an update refused for a duplicate: the failure handed to next is the
\* converted one, and the response is the normalizer's envelope
C21_UpdateDuplicateForwarded ==
    /\ Recorded("update")
    /\ last.out.kind = "next"
    /\ last.out.err.ctor = "APIError"
    /\ "errors" \in DOMAIN last.out.err
    /\ last.out.err.message = ErrorMessages.VALIDATION
    /\ last.res.status = BAD_REQUEST
    /\ store = last.before

(* C22: convertError tests for the schema-validation failure first: a       *)
(* failure named ValidationError that carries a field-to-reason mapping is  *)
(* answered with status 400 and one errors entry per field of the mapping   *)
(* (location body, the field, its reason and its kind), also when the       *)
(* failure is a request-validation failure with detail groups of its own.   *)
C22_SchemaValidationFirst ==
    (/\ last.op = "error"
     /\ last.err.name = "ValidationError"
     /\ "errors" \in DOMAIN last.err)
    => /\ last.res.status = BAD_REQUEST
       /\ last.res.body.success = FALSE
       /\ last.res.body.code = BAD_REQUEST
       /\ last.res.body.message = ErrorTypes.VALIDATION
       /\ "errors" \in DOMAIN last.res.body
       /\ Len(last.res.body.errors) = Len(last.err.errors)
       /\ \A i \in DOMAIN last.err.errors :
              last.res.body.errors[i] =
                  [ location |-> "body",
                    message  |-> last.err.errors[i].message,
                    field    |-> last.err.errors[i].field,
                    type     |-> last.err.errors[i].kind ]

\* a request-validation failure that carries a field mapping, answered from
\* the mapping and not from its detail groups
C22_MappingBeforeDetails ==
    /\ last.op = "error"
    /\ last.err.ctor = "ExpressValidationError"
    /\ "errors" \in DOMAIN last.err
    /\ "details" \in DOMAIN last.err
    /\ last.res.status = BAD_REQUEST
    /\ Len(last.res.body.errors) = 1
    /\ last.res.body.errors[1].type = "required"

\* the number of details of a request-validation failure, over its locations
RECURSIVE DetailCount(_)
DetailCount(groups) ==
    IF groups = <<>> THEN 0 ELSE Len(Head(groups).items) + DetailCount(Tail(groups))

\* a request-validation failure: express-validation's ValidationError with
\* its detail groups and no field mapping
RequestValidationFailure(err) ==
    /\ err.ctor = "ExpressValidationError"
    /\ "details" \in DOMAIN err
    /\ "errors" \notin DOMAIN err

(* C23 (as stated; refuted): a request-validation failure is answered with  *)
(* an error envelope whose errors list has one entry per detail over all    *)
(* locations, each with its location, its field and its message without     *)
(* the characters that are neither word characters nor whitespace, and      *)
(* whose status is the failure's statusCode when present, else 400.         *)
C23_RequestValidationEnvelope ==
    (last.op = "error" /\ RequestValidationFailure(last.err)) =>
        /\ last.res.status = (IF "statusCode" \in DOMAIN last.err /\ last.err.statusCode # 0
                              THEN last.err.statusCode ELSE BAD_REQUEST)
        /\ "success" \in DOMAIN last.res.body
        /\ last.res.body.success = FALSE
        /\ last.res.body.code = last.res.status
        /\ "errors" \in DOMAIN last.res.body
        /\ Len(last.res.body.errors) = DetailCount(last.err.details)
        /\ last.res.body.errors = flattenDetails(last.err.details)
        /\ \A i \in DOMAIN last.res.body.errors :
               \A j \in DOMAIN last.res.body.errors[i].message :
                   \/ IsWordChar(last.res.body.errors[i].message[j])
                   \/ IsSpace(last.res.body.errors[i].message[j])

\* a request-validation failure on which the normalizer itself throws: the
\* client receives the status-500 page of Express and no envelope
C23_NormalizerThrows ==
    /\ last.op = "error"
    /\ RequestValidationFailure(last.err)
    /\ DetailCount(last.err.details) = 1
    /\ last.res = UnhandledResponse
    /\ "success" \notin DOMAIN last.res.body

\* a failure that is neither a validation failure nor an APIError
GenericFailure(err) ==
    /\ err.name # "ValidationError"
    /\ err.ctor \notin {"APIError", "ExpressValidationError"}

(* C24: a failure that is neither a validation failure nor an APIError is   *)
(* answered with its own status when it carries one, else 500, as status    *)
(* and as code, and with its own message when it carries one, else the      *)
(* default internal-error message (in production a status of 500 or more    *)
(* always carries the default message); the message is never empty.         *)
C24_GenericFailureWrapped ==
    (last.op = "error" /\ GenericFailure(last.err)) =>
        LET status == IF "status" \in DOMAIN last.err /\ last.err.status # 0
                      THEN last.err.status ELSE INTERNAL_SERVER_ERROR
            message == IF last.err.message # "" /\ ~(env = "production" /\ status >= 500)
                       THEN last.err.message ELSE "Internal Server Error"
        IN  /\ last.res.status = status
            /\ last.res.body.success = FALSE
            /\ last.res.body.code = status
            /\ last.res.body.message = message
            /\ last.res.body.message # ""

\* outside production, a failure without a message and without a status,
\* answered with status 500 and the default message
C24_DefaultsApplied ==
    /\ last.op = "error"
    /\ GenericFailure(last.err)
    /\ env # "production"
    /\ last.err.message = ""
    /\ "status" \notin DOMAIN last.err
    /\ last.res.status = INTERNAL_SERVER_ERROR
    /\ last.res.body.message = "Internal Server Error"

\* the request reached rateLimitHandler: it is the first of the layers that
\* are not error handlers, and no route answered before it
RateLimitSignalled ==
    /\ last.op = "unmatched"
    /\ Head(SelectSeq(applyErrorMiddleware, LAMBDA l : l.arity # 4)).handler
           = "rateLimitHandler"

Counters == {"limit", "current", "remaining"}

(* C25 (as stated; refuted): the rate-limit handler always answers with an  *)
(* error envelope of status 429 and the fixed rate-limit message; in        *)
(* development the response carries the limit, current and remaining        *)
(* counters, in production it carries none of them.                         *)
C25_RateLimitEnvelope ==
    RateLimitSignalled =>
        /\ last.res.status = TOO_MANY_REQUESTS
        /\ last.res.body.success = FALSE
        /\ last.res.body.code = TOO_MANY_REQUESTS
        /\ last.res.body.message = "Too many requests"
        /\ env = "development" => Counters \subseteq DOMAIN last.res.body
        /\ env = "production" => Counters \cap DOMAIN last.res.body = {}

\* in development, a request that carries the limiter's counters answered
\* with status 429, the fixed message and none of the counters
C25_CountersDropped ==
    /\ RateLimitSignalled
    /\ env = "development"
    /\ "rateLimit" \in DOMAIN last.req
    /\ last.res.status = TOO_MANY_REQUESTS
    /\ last.res.body.message = "Too many requests"
    /\ Counters \cap DOMAIN last.res.body = {}

RefusedFields(op, body) ==
    { f \in {F_name} : \/ (op = "post" /\ F_name \notin DOMAIN body)
                       \/ (F_name \in DOMAIN body /\ trim(body[F_name]) = <<>>) }
    \cup { f \in {F_status} : F_status \in DOMAIN body /\ body[F_status] \notin CompanyStatus }
    \cup { f \in {<<>>} : op = "patch" /\ DOMAIN body = {} }

ShutdownSafe ==
    /\ proc.signals # <<>> => ~proc.listening
    /\ proc.exit # <<>> => proc.signals # <<>>
    /\ proc.exit \in {<<>>, <<0>>, <<1>>}
    /\ proc.exit = <<0>> => serverDrained(proc)
    /\ proc.exit = <<1>> => proc.timers[1] = 0

C29_SignalEndsProcess ==
    /\ []ShutdownSafe
    /\ (proc.signals # <<>>) ~> (proc.exit # <<>>)

\* a second signal arrived during the shutdown, a client kept its connection
\* open and the timer of the first signal ended the process
C29_ForcedAfterSecondSignal ==
    /\ Len(proc.signals) = 2
    /\ proc.conns > 0
    /\ proc.exit = <<1>>
    /\ proc.timers[2] > 0

(***************************************************************************)
(* C30: no connectDB promise rejects, so the process is not ended by one;   *)
(* a call that failed is fulfilled and leaves a timer that calls connectDB  *)
(* five seconds later, and so does a 'disconnected' event; while the store  *)
(* is unreachable and the connection is not open a call is waiting or       *)
(* scheduled, and an unreachable store always leads to a further call       *)
(* unless it becomes reachable first.                                       *)
(***************************************************************************)
RetryScheduled == \E i \in DOMAIN db.timers : db.timers[i] = RetryAfter

ConnectSafe ==
    /\ db.promise # "rejected" /\ Alive
    /\ db.event = "caught" => db.promise = "fulfilled" /\ RetryScheduled
    /\ db.event = "disconnected" => RetryScheduled
    /\ (db.started /\ ~db.reachable /\ db.readyState # "connected") =>
           (db.calls > 0 \/ db.timers # <<>>)

====
